---- MODULE Spec2Model ----
(***************************************************************************)
(* flask-chat-app: the conversation/message coordination engine.           *)
(*                                                                         *)
(* ChatDatabase (src/db_management.py) is modelled at the level of its     *)
(* SQL statements: every ChatDatabase object owns one sqlite3 connection   *)
(* (a "handle").  A SELECT outside a transaction reads the committed       *)
(* database; the first INSERT/UPDATE of a handle opens a transaction and   *)
(* takes SQLite's single writer lock; commit() publishes the transaction,  *)
(* rollback() or dropping the handle discards it.  The statements between  *)
(* the first write of a method and its commit are invisible to the other   *)
(* handles, so they form one step; every SELECT on a mutable table is a    *)
(* step of its own.  The Flask handlers (src/app.py) wrap these methods.   *)
(***************************************************************************)
EXTENDS Integers, Sequences, FiniteSets, TLC

VARIABLES
    db,            \* the committed database: conversations, participants, messages
    pend,          \* the working copy of the handle that holds the writer lock
    writer,        \* the handle with an open write transaction, or NoHandle
    pc,            \* per handle: the statement its current method is at
    call,          \* per handle: the method (and route) it runs, with arguments
    loc,           \* per handle: the method's local variables
    ret,           \* per handle: the value its last ChatDatabase method returned
    resp,          \* per handle: the HTTP response of its route
    sent,          \* per handle: the socket events its route emitted
    now,           \* the clock, UTC seconds
    faults,        \* persistence errors injected so far
    calls,         \* methods and routes started so far
    sid_user,      \* per socket connection: the session's username, 0 when closed
    active_users,  \* app.py active_users: username -> socket id, 0 when absent
    rooms,         \* per socket connection: the chat rooms it joined
    sock_out,      \* per socket connection: the last event emitted to it alone
    broadcast      \* the last user_status_change event sent to everyone

vars == <<db, pend, writer, pc, call, loc, ret, resp, sent, now, faults, calls,
          sid_user, active_users, rooms, sock_out, broadcast>>

dbvars   == <<db, pend, writer>>
procvars == <<pc, call, loc, ret, resp, sent>>
hubvars  == <<sid_user, active_users, rooms, sock_out, broadcast>>

-----------------------------------------------------------------------------
(* Bounds of the model *)

MaxConvs == 2      \* conversation rows ever inserted
MaxMsgs == 2       \* message rows ever inserted
MaxClock == 2      \* the clock runs from 1 to MaxClock
MaxFaults == 1     \* persistence errors injected in one run
MaxCalls == 4      \* ChatDatabase methods, requests and socket events started in one run
NumSids == 3       \* socket connections
MaxListed == 3     \* conversations stored before a listing run starts

(* Program constants *)

MaxCreateSize == 16     \* createConversation: len(usernames) > 16
MaxParticipants == 16   \* addUserToConversation: participant_count >= 16

-----------------------------------------------------------------------------
(* Values *)

None == 0                       \* Python None / SQL NULL for ids and times
NullName == "<null>"            \* SQL NULL in conversations.name
NoHandle == "none"
Handles == {"h1", "h2"}
Sids == 1..NumSids

\* user_table: usernames are numbered in registration order; AUTOINCREMENT
\* gives the k-th registered user the id k.  One more name is unregistered.
NumUsers == MaxParticipants + 1
Registered == 1..NumUsers
Unknown == NumUsers + 1

\* The users that log in, and a session without 'username'.
SessionUsers == {1, 2, 3}
Anonymous == -1

_getUserIdFromUsername(username) ==
    IF username \in Registered THEN username ELSE None

_getUsernameFromId(user_id) ==
    IF user_id \in Registered THEN user_id ELSE None

Range(s) == {s[i] : i \in DOMAIN s}

Min(S) == CHOOSE x \in S : \A y \in S : x <= y

\* tz holds the user_table rows whose timezone was updated (the column's
\* DEFAULT is 'UTC').
EmptyDb == [convs |-> <<>>, parts |-> <<>>, msgs |-> <<>>, tz |-> <<>>]

\* What a SELECT of handle h reads: its own open transaction, else the
\* committed database.
View(h) == IF writer = h THEN pend ELSE db

ConvIds(d) == DOMAIN d.convs

Members(d, c) == IF c \in ConvIds(d) THEN {p.user_id : p \in d.parts[c]} ELSE {}

\* route: the Flask route, "api" for a direct ChatDatabase call; member: whether
\* the session user was a participant of the chat when the route checked
\* access (kept for the access-control properties, read by no action).
NoCall == [route |-> "none", op |-> "none", user |-> 0, chat |-> 0,
           names |-> <<>>, target |-> 0, text |-> "", message |-> <<>>,
           member |-> FALSE]

NoLoc == [user_id |-> 0, ids |-> {}, is_group |-> FALSE, count |-> 0,
          timestamp |-> 0, chat |-> <<>>]

NoRet == [ok |-> FALSE, id |-> 0, chat |-> <<>>, ids |-> <<>>]

ApiCall(op) == [NoCall EXCEPT !.route = "api", !.op = op]

\* A ChatDatabase method may be called on a fresh handle, or on a handle
\* whose previous method has returned (the object is reused).
Callable(h) ==
    /\ pc[h] = "idle" \/ (pc[h] = "ret" /\ call[h].route = "api")
    /\ calls < MaxCalls

\* A direct call of a ChatDatabase method with the arguments in c.
Enter(h, c) ==
    /\ Callable(h)
    /\ calls' = calls + 1
    /\ call' = [call EXCEPT ![h] = c]

\* A later statement of the method h runs.
At(h, label) ==
    /\ pc[h] = label
    /\ UNCHANGED <<call, calls>>

Goto(h, label) == pc' = [pc EXCEPT ![h] = label]

-----------------------------------------------------------------------------
(* Transactions *)

\* commit(): the handle's transaction becomes the committed database.
Commit(d) ==
    /\ db' = d
    /\ pend' = d
    /\ writer' = NoHandle

\* rollback(), or the connection being dropped: the handle's transaction,
\* if it has one, is discarded.
Rollback(h) ==
    IF writer = h
    THEN /\ writer' = NoHandle
         /\ pend' = db
         /\ db' = db
    ELSE UNCHANGED dbvars

\* A method left by an exception without rollback(): the statements that ran
\* stay in the handle's open transaction.
LeaveOpen(h, d, wrote) ==
    IF wrote \/ writer = h
    THEN /\ writer' = h
         /\ pend' = d
         /\ db' = db
    ELSE UNCHANGED dbvars

\* The writer lock is free for h.
CanWrite(h) == writer \in {NoHandle, h}

Return(h, r) ==
    /\ pc' = [pc EXCEPT ![h] = "ret"]
    /\ ret' = [ret EXCEPT ![h] = r]

RetBool(b) == [NoRet EXCEPT !.ok = b]
RetId(i) == [NoRet EXCEPT !.ok = (i # None), !.id = i]

-----------------------------------------------------------------------------
(* createConversation, src/db_management.py 452-532 *)

UserIdsOf(usernames) == {_getUserIdFromUsername(usernames[i]) : i \in DOMAIN usernames}

\* The dedup SELECT (484-498): non-group conversations in which both users
\* participate and that have exactly two participant rows.
ExistingDirect(d, user_ids) ==
    {c \in ConvIds(d) :
        /\ ~d.convs[c].is_group
        /\ Cardinality(Members(d, c) \cap user_ids) = 2
        /\ Cardinality(d.parts[c]) = 2}

NewConversation(d, user_ids, is_group, timestamp) ==
    [d EXCEPT
        !.convs = Append(@, [is_group |-> is_group, name |-> NullName,
                             created_at |-> timestamp, last_message_at |-> None]),
        !.parts = Append(@, {[user_id |-> u, joined_at |-> timestamp] : u \in user_ids})]

\* Conversation rows are bounded: a call that may insert one starts only
\* while there is room for it.
RoomForConversation(h) ==
    Len(View(h).convs) + Cardinality({g \in Handles : pc[g] = "cc_write"}) < MaxConvs

\* A variant of 459-503 that looks up only the first username and drops the
\* names it does not find.
CreateConversation_Begin_FirstOnly(h, usernames) ==
    /\ IF Len(usernames) < 2 \/ Len(usernames) > MaxCreateSize
       THEN Return(h, RetId(None)) /\ UNCHANGED loc
       ELSE IF _getUserIdFromUsername(usernames[1]) = None
       THEN Return(h, RetId(None)) /\ UNCHANGED loc
       ELSE LET user_ids == UserIdsOf(usernames) \ {None}
                existing == ExistingDirect(View(h), user_ids)
            IN  IF Cardinality(user_ids) = 2 /\ existing # {}
                THEN Return(h, RetId(Min(existing))) /\ UNCHANGED loc
                ELSE /\ Goto(h, "cc_write")
                     /\ loc' = [loc EXCEPT ![h] = [NoLoc EXCEPT
                                    !.ids = user_ids,
                                    !.is_group = Cardinality(user_ids) > 2]]
                     /\ UNCHANGED ret

\* 459-503: the length checks, the user lookups, set(), and the dedup SELECT
\* (fetchone() of a scan in id order: the lowest matching id).
CreateConversation_Begin(h, usernames) ==
    /\ IF Len(usernames) < 2 \/ Len(usernames) > MaxCreateSize
       THEN Return(h, RetId(None)) /\ UNCHANGED loc
       ELSE IF None \in UserIdsOf(usernames)
       THEN Return(h, RetId(None)) /\ UNCHANGED loc
       ELSE LET user_ids == UserIdsOf(usernames)
                existing == ExistingDirect(View(h), user_ids)
            IN  IF Cardinality(user_ids) = 2 /\ existing # {}
                THEN Return(h, RetId(Min(existing))) /\ UNCHANGED loc
                ELSE /\ Goto(h, "cc_write")
                     /\ loc' = [loc EXCEPT ![h] = [NoLoc EXCEPT
                                    !.ids = user_ids,
                                    !.is_group = Cardinality(user_ids) > 2]]
                     /\ UNCHANGED ret

createConversation(h, usernames) ==
    /\ RoomForConversation(h)
    /\ Enter(h, [ApiCall("createConversation") EXCEPT !.names = usernames])
    /\ CreateConversation_Begin(h, usernames)
    /\ UNCHANGED <<dbvars, resp, sent, now, faults, hubvars>>

\* createConversation with the dedup path in its two steps: fetchone() of
\* the dedup SELECT (499), and the return of the fetched id after the log
\* line (500-503).  The id waits in ret while the call is at "cc_found".
createConversation_Select(h, usernames) ==
    /\ RoomForConversation(h)
    /\ Enter(h, [ApiCall("createConversation") EXCEPT !.names = usernames])
    /\ LET user_ids == UserIdsOf(usernames)
           existing == ExistingDirect(View(h), user_ids)
       IN  IF /\ Len(usernames) >= 2
              /\ Len(usernames) <= MaxCreateSize
              /\ None \notin user_ids
              /\ Cardinality(user_ids) = 2
              /\ existing # {}
           THEN /\ Goto(h, "cc_found")
                /\ ret' = [ret EXCEPT ![h] = RetId(Min(existing))]
                /\ UNCHANGED loc
           ELSE CreateConversation_Begin(h, usernames)
    /\ UNCHANGED <<dbvars, resp, sent, now, faults, hubvars>>

\* 500-503: logging.warning, return existing['id'].
CreateConversation_Return(h) ==
    /\ At(h, "cc_found")
    /\ Goto(h, "ret")
    /\ UNCHANGED <<dbvars, loc, ret, resp, sent, now, faults, hubvars>>

\* 505-525: the conversation row, the participant rows and the commit.
CreateConversation_Write(h) ==
    /\ At(h, "cc_write")
    /\ CanWrite(h)
    /\ LET d == NewConversation(View(h), loc[h].ids, loc[h].is_group, now)
       IN  /\ Commit(d)
           /\ Return(h, RetId(Len(d.convs)))
    /\ UNCHANGED <<loc, resp, sent, now, faults, hubvars>>

\* A variant of 526-532 without rollback(): the conversation row and the
\* participant rows inserted before the failing statement stay in the
\* handle's open transaction.
CreateConversation_Error_NoRollback(h) ==
    /\ At(h, "cc_write")
    /\ \/ ~CanWrite(h) /\ UNCHANGED <<faults, dbvars>>
       \/ /\ CanWrite(h)
          /\ faults < MaxFaults
          /\ faults' = faults + 1
          /\ \E inserted \in SUBSET loc[h].ids :
                /\ inserted # loc[h].ids
                /\ LeaveOpen(h, NewConversation(View(h), inserted, loc[h].is_group, now), TRUE)
    /\ Return(h, RetId(None))
    /\ UNCHANGED <<loc, resp, sent, now, hubvars>>

\* 526-532: an exception (the writer lock is held by another handle, or a
\* persistence error in any of the statements): rollback() and None.
CreateConversation_Error(h) ==
    /\ At(h, "cc_write")
    /\ \/ ~CanWrite(h) /\ UNCHANGED faults
       \/ faults < MaxFaults /\ faults' = faults + 1
    /\ Rollback(h)
    /\ Return(h, RetId(None))
    /\ UNCHANGED <<loc, resp, sent, now, hubvars>>

-----------------------------------------------------------------------------
(* addUserToConversation, src/db_management.py 534-602 *)

\* 542-556: the user lookup and the SELECT of the conversation row.
AddUser_Begin(h, conversation_id, username) ==
    LET user_id == _getUserIdFromUsername(username)
        d == View(h)
    IN  IF user_id = None
        THEN Return(h, RetBool(FALSE)) /\ UNCHANGED loc
        ELSE IF conversation_id \notin ConvIds(d)
        THEN Return(h, RetBool(FALSE)) /\ UNCHANGED loc
        ELSE /\ Goto(h, "au_member")
             /\ loc' = [loc EXCEPT ![h] = [NoLoc EXCEPT
                            !.user_id = user_id,
                            !.is_group = d.convs[conversation_id].is_group]]
             /\ UNCHANGED ret

addUserToConversation(h, conversation_id, username) ==
    /\ Enter(h, [ApiCall("addUserToConversation") EXCEPT
                    !.chat = conversation_id, !.target = username])
    /\ AddUser_Begin(h, conversation_id, username)
    /\ UNCHANGED <<dbvars, resp, sent, now, faults, hubvars>>

\* A variant of the statements at 558-565 that never finds the user.
AddUser_Member_Skipped(h) ==
    /\ At(h, "au_member")
    /\ Goto(h, "au_count") /\ UNCHANGED ret
    /\ UNCHANGED <<dbvars, loc, resp, sent, now, faults, hubvars>>

\* 558-565: already a participant: True, nothing written.
AddUser_Member(h) ==
    /\ At(h, "au_member")
    /\ IF loc[h].user_id \in Members(View(h), call[h].chat)
       THEN Return(h, RetBool(TRUE))
       ELSE Goto(h, "au_count") /\ UNCHANGED ret
    /\ UNCHANGED <<dbvars, loc, resp, sent, now, faults, hubvars>>

\* 567-577: the participant count and the capacity check.
AddUser_Count(h) ==
    /\ At(h, "au_count")
    /\ LET participant_count == Cardinality(View(h).parts[call[h].chat])
       IN  IF participant_count >= MaxParticipants
           THEN Return(h, RetBool(FALSE)) /\ UNCHANGED loc
           ELSE /\ Goto(h, "au_write")
                /\ loc' = [loc EXCEPT ![h].count = participant_count]
                /\ UNCHANGED ret
    /\ UNCHANGED <<dbvars, resp, sent, now, faults, hubvars>>

\* 580: a direct chat with two participants is converted.
Converts(l) == ~l.is_group /\ l.count = 2

SetGroup(d, c) == [d EXCEPT !.convs[c].is_group = TRUE]

InsertParticipant(d, c, user_id, timestamp) ==
    [d EXCEPT !.parts[c] = @ \cup {[user_id |-> user_id, joined_at |-> timestamp]}]

\* A variant of the write without the PRIMARY KEY of conversation_participants.
AddUser_Write_NoKey(h) ==
    /\ At(h, "au_write")
    /\ CanWrite(h)
    /\ LET c == call[h].chat
           d1 == IF Converts(loc[h]) THEN SetGroup(View(h), c) ELSE View(h)
       IN  /\ Commit(InsertParticipant(d1, c, loc[h].user_id, now))
           /\ Return(h, RetBool(TRUE))
    /\ UNCHANGED <<loc, resp, sent, now, faults, hubvars>>

\* 579-599: UPDATE is_group_chat (when converting), INSERT the participant,
\* commit.  PRIMARY KEY (conversation_id, user_id) rejects a second row of
\* the same user: the INSERT raises and the method returns False at 600-602,
\* without rollback().
AddUser_Write(h) ==
    /\ At(h, "au_write")
    /\ CanWrite(h)
    /\ LET c == call[h].chat
           d1 == IF Converts(loc[h]) THEN SetGroup(View(h), c) ELSE View(h)
       IN  IF loc[h].user_id \in Members(d1, c)
           THEN /\ LeaveOpen(h, d1, TRUE)
                /\ Return(h, RetBool(FALSE))
           ELSE /\ Commit(InsertParticipant(d1, c, loc[h].user_id, now))
                /\ Return(h, RetBool(TRUE))
    /\ UNCHANGED <<loc, resp, sent, now, faults, hubvars>>

\* 600-602: an exception: False, and no rollback().  The lock is held by
\* another handle (nothing ran), or a persistence error hits the UPDATE
\* (nothing ran), the INSERT (the UPDATE ran) or the commit (both ran).
AddUser_Error(h) ==
    /\ At(h, "au_write")
    /\ \/ /\ ~CanWrite(h)
          /\ UNCHANGED <<dbvars, faults>>
       \/ /\ CanWrite(h)
          /\ faults < MaxFaults
          /\ faults' = faults + 1
          /\ LET c == call[h].chat
                 d0 == View(h)
                 d1 == IF Converts(loc[h]) THEN SetGroup(d0, c) ELSE d0
                 d2 == InsertParticipant(d1, c, loc[h].user_id, now)
             IN  \E d \in {d0, d1, d2} :
                    /\ (d = d2) => loc[h].user_id \notin Members(d1, c)
                    /\ LeaveOpen(h, d, d # d0)
    /\ Return(h, RetBool(FALSE))
    /\ UNCHANGED <<loc, resp, sent, now, hubvars>>

-----------------------------------------------------------------------------
(* appendMessage, src/db_management.py 604-656 *)

RoomForMessage(h) ==
    Len(View(h).msgs) + Cardinality({g \in Handles : pc[g] = "am_write"}) < MaxMsgs

\* 613-638: the empty check, the sender lookup, the participant SELECT and
\* get_utc_timestamp().  (Membership only grows, so reading the clock in the
\* step of the SELECT loses no behaviour.)
AppendMessage_Begin(h, conversation_id, sender_username, message) ==
    LET sender_id == _getUserIdFromUsername(sender_username)
    IN  IF message = <<>>
        THEN Return(h, RetBool(FALSE)) /\ UNCHANGED loc
        ELSE IF sender_id = None
        THEN Return(h, RetBool(FALSE)) /\ UNCHANGED loc
        ELSE IF sender_id \notin Members(View(h), conversation_id)
        THEN Return(h, RetBool(FALSE)) /\ UNCHANGED loc
        ELSE /\ Goto(h, "am_write")
             /\ loc' = [loc EXCEPT ![h] = [NoLoc EXCEPT
                            !.user_id = sender_id, !.timestamp = now]]
             /\ UNCHANGED ret

appendMessage(h, conversation_id, sender_username, message) ==
    /\ RoomForMessage(h)
    /\ Enter(h, [ApiCall("appendMessage") EXCEPT
                    !.chat = conversation_id, !.user = sender_username,
                    !.message = message])
    /\ AppendMessage_Begin(h, conversation_id, sender_username, message)
    /\ UNCHANGED <<dbvars, resp, sent, now, faults, hubvars>>

\* 640-643: the message row.  stamped records whether the UPDATE of the same
\* call has run in the row's transaction (read by no action).
InsertMessage(d, c, sender_id, message, timestamp) ==
    [d EXCEPT !.msgs = Append(@, [conversation_id |-> c, sender_id |-> sender_id,
                                  message |-> message, timestamp |-> timestamp,
                                  stamped |-> FALSE])]

\* 646-649: UPDATE conversations SET last_message_at = ? WHERE id = ?
UpdateLastMessageAt(d, c, timestamp) ==
    [d EXCEPT !.convs[c].last_message_at = timestamp,
              !.msgs[Len(d.msgs)].stamped = TRUE]

\* 640-653: INSERT the message, UPDATE last_message_at, commit.
AppendMessage_Write(h) ==
    /\ At(h, "am_write")
    /\ CanWrite(h)
    /\ LET c == call[h].chat
           d1 == InsertMessage(View(h), c, loc[h].user_id, call[h].message,
                               loc[h].timestamp)
       IN  Commit(UpdateLastMessageAt(d1, c, loc[h].timestamp))
    /\ Return(h, RetBool(TRUE))
    /\ UNCHANGED <<loc, resp, sent, now, faults, hubvars>>

\* 654-656: an exception: False, and no rollback().  The lock is held by
\* another handle (nothing ran), or a persistence error hits the INSERT
\* (nothing ran), the UPDATE (the INSERT ran) or the commit (both ran).
AppendMessage_Error(h) ==
    /\ At(h, "am_write")
    /\ \/ /\ ~CanWrite(h)
          /\ UNCHANGED <<dbvars, faults>>
       \/ /\ CanWrite(h)
          /\ faults < MaxFaults
          /\ faults' = faults + 1
          /\ LET c == call[h].chat
                 d0 == View(h)
                 d1 == InsertMessage(d0, c, loc[h].user_id, call[h].message,
                                     loc[h].timestamp)
                 d2 == UpdateLastMessageAt(d1, c, loc[h].timestamp)
             IN  \E d \in {d0, d1, d2} : LeaveOpen(h, d, d # d0)
    /\ Return(h, RetBool(FALSE))
    /\ UNCHANGED <<loc, resp, sent, now, hubvars>>

-----------------------------------------------------------------------------
(* updateChatName, src/db_management.py 690-721 *)

\* 698-711: the SELECT of is_group_chat.
UpdateChatName_Begin(h, conversation_id) ==
    LET d == View(h)
    IN  IF conversation_id \notin ConvIds(d)
        THEN Return(h, RetBool(FALSE))
        ELSE IF ~d.convs[conversation_id].is_group
        THEN Return(h, RetBool(FALSE))
        ELSE Goto(h, "un_write") /\ UNCHANGED ret

updateChatName(h, conversation_id, name) ==
    /\ Enter(h, [ApiCall("updateChatName") EXCEPT
                    !.chat = conversation_id, !.text = name])
    /\ UpdateChatName_Begin(h, conversation_id)
    /\ UNCHANGED <<dbvars, loc, resp, sent, now, faults, hubvars>>

SetName(d, c, name) == [d EXCEPT !.convs[c].name = name]

\* 713-718: UPDATE name, commit.
UpdateChatName_Write(h) ==
    /\ At(h, "un_write")
    /\ CanWrite(h)
    /\ Commit(SetName(View(h), call[h].chat, call[h].text))
    /\ Return(h, RetBool(TRUE))
    /\ UNCHANGED <<loc, resp, sent, now, faults, hubvars>>

\* 719-721: an exception: False, and no rollback().
UpdateChatName_Error(h) ==
    /\ At(h, "un_write")
    /\ \/ /\ ~CanWrite(h)
          /\ UNCHANGED <<dbvars, faults>>
       \/ /\ CanWrite(h)
          /\ faults < MaxFaults
          /\ faults' = faults + 1
          /\ LET d0 == View(h)
                 d1 == SetName(d0, call[h].chat, call[h].text)
             IN  \E d \in {d0, d1} : LeaveOpen(h, d, d # d0)
    /\ Return(h, RetBool(FALSE))
    /\ UNCHANGED <<loc, resp, sent, now, hubvars>>

-----------------------------------------------------------------------------
(* updateUserTimezone, src/db_management.py 658-668 *)

Timezone(d, user_id) == IF user_id \in DOMAIN d.tz THEN d.tz[user_id] ELSE "UTC"

\* 662: UPDATE user_table SET timezone = ? WHERE username = ? (no row for an
\* unregistered name).
SetTimezone(d, username, timezone) ==
    LET user_id == _getUserIdFromUsername(username)
    IN  IF user_id = None THEN d
        ELSE [d EXCEPT !.tz = (user_id :> timezone) @@ @]

\* 660-665: UPDATE, commit, True.
updateUserTimezone(h, username, timezone) ==
    /\ Enter(h, [ApiCall("updateUserTimezone") EXCEPT
                    !.user = username, !.text = timezone])
    /\ CanWrite(h)
    /\ Commit(SetTimezone(View(h), username, timezone))
    /\ Return(h, RetBool(TRUE))
    /\ UNCHANGED <<loc, resp, sent, now, faults, hubvars>>

\* 666-668: an exception: False, and no rollback().
UpdateUserTimezone_Error(h, username, timezone) ==
    /\ Enter(h, [ApiCall("updateUserTimezone") EXCEPT
                    !.user = username, !.text = timezone])
    /\ \/ /\ ~CanWrite(h)
          /\ UNCHANGED <<dbvars, faults>>
       \/ /\ CanWrite(h)
          /\ faults < MaxFaults
          /\ faults' = faults + 1
          /\ LET d0 == View(h)
                 d1 == SetTimezone(d0, username, timezone)
             IN  \E d \in {d0, d1} : LeaveOpen(h, d, d # d0)
    /\ Return(h, RetBool(FALSE))
    /\ UNCHANGED <<loc, resp, sent, now, hubvars>>

-----------------------------------------------------------------------------
(* getChat, _getDirectChat, _getGroupChat, src/db_management.py 248-341, 400-424 *)

MsgIds(d, c) == {i \in DOMAIN d.msgs : d.msgs[i].conversation_id = c}

\* ORDER BY m.timestamp ASC (279, 326): every order of the conversation's
\* rows with non-decreasing timestamps; SQL leaves the order of rows with
\* equal timestamps open.
OrderedByTimestamp(d, c) ==
    LET ids == MsgIds(d, c)
        n == Cardinality(ids)
    IN  {s \in [1..n -> ids] :
            /\ \A i, j \in 1..n : i # j => s[i] # s[j]
            /\ \A i, j \in 1..n : i < j => d.msgs[s[i]].timestamp <= d.msgs[s[j]].timestamp}

MessageRow(d, i) ==
    [id |-> i, sender_id |-> d.msgs[i].sender_id,
     sender |-> _getUsernameFromId(d.msgs[i].sender_id),
     message |-> d.msgs[i].message, timestamp |-> d.msgs[i].timestamp]

\* 407-416: SELECT is_group_chat.
GetChat_Begin(h, chat_id) ==
    LET d == View(h)
    IN  IF chat_id \notin ConvIds(d)
        THEN Return(h, NoRet) /\ UNCHANGED loc
        ELSE /\ Goto(h, "gc_conv")
             /\ loc' = [loc EXCEPT ![h] = [NoLoc EXCEPT
                            !.is_group = d.convs[chat_id].is_group]]
             /\ UNCHANGED ret

getChat(h, chat_id) ==
    /\ Enter(h, [ApiCall("getChat") EXCEPT !.chat = chat_id])
    /\ GetChat_Begin(h, chat_id)
    /\ UNCHANGED <<dbvars, resp, sent, now, faults, hubvars>>

\* 254-271, 301-318: the conversation row, WHERE is_group_chat is what
\* getChat read, and the participant rows.
GetChat_Conv(h) ==
    /\ At(h, "gc_conv")
    /\ LET d == View(h)
           c == call[h].chat
       IN  IF d.convs[c].is_group # loc[h].is_group
           THEN Return(h, NoRet) /\ UNCHANGED loc
           ELSE /\ Goto(h, "gc_msgs")
                /\ loc' = [loc EXCEPT ![h].chat =
                      <<[id |-> c,
                         type |-> IF loc[h].is_group THEN "group" ELSE "direct",
                         name |-> IF loc[h].is_group THEN d.convs[c].name ELSE NullName,
                         created_at |-> d.convs[c].created_at,
                         last_message_at |-> d.convs[c].last_message_at,
                         participants |-> Members(d, c),
                         messages |-> <<>>]>>]
                /\ UNCHANGED ret
    /\ UNCHANGED <<dbvars, resp, sent, now, faults, hubvars>>

\* 273-290, 320-338: the message rows in timestamp order, and the dict.
GetChat_Messages(h) ==
    /\ At(h, "gc_msgs")
    /\ LET d == View(h)
       IN  \E s \in OrderedByTimestamp(d, call[h].chat) :
              Return(h, [NoRet EXCEPT !.ok = TRUE, !.chat =
                  <<[loc[h].chat[1] EXCEPT
                        !.messages = [i \in DOMAIN s |-> MessageRow(d, s[i])]]>>])
    /\ UNCHANGED <<dbvars, loc, resp, sent, now, faults, hubvars>>

-----------------------------------------------------------------------------
(* getUserChats, getChatParticipants, src/db_management.py 426-450, 670-688 *)

MemberChats(d, user_id) == {c \in ConvIds(d) : user_id \in Members(d, c)}

\* A variant of the ORDER BY that sorts ascending.
ListedBefore_Ascending(d, a, b) ==
    LET x == d.convs[a].last_message_at
        y == d.convs[b].last_message_at
    IN  IF y = None THEN TRUE ELSE (x # None /\ x <= y)

\* ORDER BY c.last_message_at DESC NULLS LAST
ListedBefore(d, a, b) ==
    LET x == d.convs[a].last_message_at
        y == d.convs[b].last_message_at
    IN  IF y = None THEN TRUE ELSE (x # None /\ x >= y)

\* Two variants of getUserChats, for comparison with the access properties:
\* one whose JOIN loses the conversations that became group chats, and one
\* without the WHERE cp.user_id = ? filter.
getUserChats_DirectOnly(d, username) ==
    LET user_id == _getUserIdFromUsername(username)
        ids == {c \in MemberChats(d, user_id) : ~d.convs[c].is_group}
        n == Cardinality(ids)
    IN  IF user_id = None THEN {<<>>}
        ELSE {s \in [1..n -> ids] :
                /\ \A i, j \in 1..n : i # j => s[i] # s[j]
                /\ \A i, j \in 1..n : i < j => ListedBefore(d, s[i], s[j])}

getUserChats_Unfiltered(d, username) ==
    LET user_id == _getUserIdFromUsername(username)
        ids == ConvIds(d)
        n == Cardinality(ids)
    IN  IF user_id = None THEN {<<>>}
        ELSE {s \in [1..n -> ids] :
                /\ \A i, j \in 1..n : i # j => s[i] # s[j]
                /\ \A i, j \in 1..n : i < j => ListedBefore(d, s[i], s[j])}

\* 433-447: [] for an unknown user; else the ids of the conversations the
\* user has a participant row in, in every order the ORDER BY allows.
getUserChats(d, username) ==
    LET user_id == _getUserIdFromUsername(username)
        ids == MemberChats(d, user_id)
        n == Cardinality(ids)
    IN  IF user_id = None THEN {<<>>}
        ELSE {s \in [1..n -> ids] :
                /\ \A i, j \in 1..n : i # j => s[i] # s[j]
                /\ \A i, j \in 1..n : i < j => ListedBefore(d, s[i], s[j])}

\* getUserChats called on handle h: the list it returns.
getUserChats_Call(h, username) ==
    /\ Enter(h, [ApiCall("getUserChats") EXCEPT !.user = username])
    /\ \E s \in getUserChats(View(h), username) :
          Return(h, [NoRet EXCEPT !.ok = TRUE, !.ids = s])
    /\ UNCHANGED <<dbvars, loc, resp, sent, now, faults, hubvars>>

getChatParticipants(d, conversation_id) ==
    IF conversation_id \in ConvIds(d) THEN d.parts[conversation_id] ELSE {}

-----------------------------------------------------------------------------
(* The handle is dropped: its connection closes and an open transaction is
   rolled back.  app.py builds one ChatDatabase per request (get_chatdb, 41-44). *)
Release(h) ==
    /\ pc[h] \in {"ret", "resp"}
    /\ call[h].route = "api" <=> pc[h] = "ret"
    /\ Rollback(h)
    /\ pc' = [pc EXCEPT ![h] = "idle"]
    /\ call' = [call EXCEPT ![h] = NoCall]
    /\ loc' = [loc EXCEPT ![h] = NoLoc]
    /\ ret' = [ret EXCEPT ![h] = NoRet]
    /\ resp' = [resp EXCEPT ![h] = "none"]
    /\ sent' = [sent EXCEPT ![h] = <<>>]
    /\ UNCHANGED <<now, faults, calls, hubvars>>

\* get_utc_timestamp (src/utils.py 74-77) reads this clock.
Tick ==
    /\ now < MaxClock
    /\ now' = now + 1
    /\ UNCHANGED <<dbvars, procvars, faults, calls, hubvars>>

-----------------------------------------------------------------------------
(* The Flask routes, src/app.py *)

\* encrypt_message / decrypt_message (src/utils.py 14-20): a Fernet token
\* wraps the plaintext; decrypting anything else raises.
Encrypt(plaintext) == <<"fernet", plaintext>>
IsToken(m) == Len(m) = 2 /\ m[1] = "fernet"
Decrypt(token) == token[2]

\* str.strip() on the texts the scenarios send.
Strip(text) == IF text = " " THEN "" ELSE IF text = " hi " THEN "hi" ELSE text

\* A request: get_chatdb() builds a ChatDatabase for it (41-44).
Request(h, c) ==
    /\ pc[h] = "idle"
    /\ calls < MaxCalls
    /\ calls' = calls + 1
    /\ call' = [call EXCEPT ![h] = c]

Respond(h, r) ==
    /\ pc' = [pc EXCEPT ![h] = "resp"]
    /\ resp' = [resp EXCEPT ![h] = r]

\* A variant of the access check that only asks whether the chat exists.
HasAccess_Existing(d, username, chat_id) ==
    _getUserIdFromUsername(username) # None /\ chat_id \in ConvIds(d)

\* user_chats = getUserChats(session['username']); chat_id in user_chats
HasAccess(d, username, chat_id) ==
    LET user_chats == CHOOSE s \in getUserChats(d, username) : TRUE
    IN  chat_id \in Range(user_chats)

RouteCall(route, username, chat_id) ==
    [NoCall EXCEPT !.route = route, !.user = username, !.chat = chat_id,
                   !.member = _getUserIdFromUsername(username) \in Members(db, chat_id)]

SidsIn(chat_id) == {s \in Sids : chat_id \in rooms[s]}

\* socketio.emit(event, payload, room=f'chat_{chat_id}')
Emit(h, event, payload) ==
    sent' = [sent EXCEPT ![h] = Append(@,
                [event |-> event, room |-> payload.chat_id, payload |-> payload,
                 to |-> SidsIn(payload.chat_id)])]

\* get_chat, 162-181: the access check.
get_chat(h, username, chat_id) ==
    /\ Request(h, [RouteCall("get_chat", username, chat_id) EXCEPT !.op = "getChat"])
    /\ IF ~HasAccess(View(h), username, chat_id)
       THEN Respond(h, "AccessDenied")
       ELSE Goto(h, "gc_begin") /\ UNCHANGED resp
    /\ UNCHANGED <<dbvars, loc, ret, sent, now, faults, hubvars>>

\* 170: getChat(chat_id)
get_chat_getChat(h) ==
    /\ At(h, "gc_begin")
    /\ GetChat_Begin(h, call[h].chat)
    /\ UNCHANGED <<dbvars, resp, sent, now, faults, hubvars>>

\* A variant of 171-181 that returns the stored messages as they are.
get_chat_respond_Raw(h) ==
    /\ At(h, "ret")
    /\ call[h].route = "get_chat"
    /\ IF ret[h].chat = <<>>
       THEN Respond(h, "NotFound")
       ELSE Respond(h, "OK")
    /\ UNCHANGED <<dbvars, loc, ret, sent, now, faults, hubvars>>

\* 171-181: 404 without data; else every message is decrypted in place.
get_chat_respond(h) ==
    /\ At(h, "ret")
    /\ call[h].route = "get_chat"
    /\ IF ret[h].chat = <<>>
       THEN Respond(h, "NotFound") /\ UNCHANGED ret
       ELSE LET chat == ret[h].chat[1]
            IN  IF \E i \in DOMAIN chat.messages : ~IsToken(chat.messages[i].message)
                THEN Respond(h, "ServerError") /\ UNCHANGED ret
                ELSE /\ Respond(h, "OK")
                     /\ ret' = [ret EXCEPT ![h].chat = <<[chat EXCEPT !.messages =
                            [i \in DOMAIN chat.messages |->
                                [chat.messages[i] EXCEPT !.message =
                                    <<Decrypt(chat.messages[i].message)>>]]]>>]
    /\ UNCHANGED <<dbvars, loc, sent, now, faults, hubvars>>

\* A variant of 186-205 whose validation does not strip the message.
send_message_NoStrip(h, username, chat_id, message) ==
    /\ RoomForMessage(h)
    /\ Request(h, [RouteCall("send_message", username, chat_id) EXCEPT
                      !.op = "appendMessage", !.text = message,
                      !.message = Encrypt(message)])
    /\ IF message = ""
       THEN Respond(h, "BAD")
       ELSE IF chat_id = None
       THEN Respond(h, "BAD")
       ELSE IF ~HasAccess(View(h), username, chat_id)
       THEN Respond(h, "AccessDenied")
       ELSE Goto(h, "am_begin") /\ UNCHANGED resp
    /\ UNCHANGED <<dbvars, loc, ret, sent, now, faults, hubvars>>

\* A variant of 186-205 that hands the message to appendMessage as it came.
send_message_Plain(h, username, chat_id, message) ==
    /\ RoomForMessage(h)
    /\ Request(h, [RouteCall("send_message", username, chat_id) EXCEPT
                      !.op = "appendMessage", !.text = message,
                      !.message = <<message>>])
    /\ IF message = "" \/ Strip(message) = ""
       THEN Respond(h, "BAD")
       ELSE IF chat_id = None
       THEN Respond(h, "BAD")
       ELSE IF ~HasAccess(View(h), username, chat_id)
       THEN Respond(h, "AccessDenied")
       ELSE Goto(h, "am_begin") /\ UNCHANGED resp
    /\ UNCHANGED <<dbvars, loc, ret, sent, now, faults, hubvars>>

\* send_message, 186-205: validation, the access check, encryption.
send_message(h, username, chat_id, message) ==
    /\ RoomForMessage(h)
    /\ Request(h, [RouteCall("send_message", username, chat_id) EXCEPT
                      !.op = "appendMessage", !.text = message,
                      !.message = Encrypt(message)])
    /\ IF message = "" \/ Strip(message) = ""
       THEN Respond(h, "BAD")
       ELSE IF chat_id = None
       THEN Respond(h, "BAD")
       ELSE IF ~HasAccess(View(h), username, chat_id)
       THEN Respond(h, "AccessDenied")
       ELSE Goto(h, "am_begin") /\ UNCHANGED resp
    /\ UNCHANGED <<dbvars, loc, ret, sent, now, faults, hubvars>>

\* 206: appendMessage(chat_id, session['username'], encrypted_msg)
send_message_append(h) ==
    /\ At(h, "am_begin")
    /\ AppendMessage_Begin(h, call[h].chat, call[h].user, call[h].message)
    /\ UNCHANGED <<dbvars, resp, sent, now, faults, hubvars>>

\* A variant of 206-229 that notifies the room whatever appendMessage
\* returned.
send_message_emit_Always(h) ==
    /\ At(h, "ret")
    /\ call[h].route = "send_message"
    /\ Emit(h, "new_message",
            [chat_id |-> call[h].chat, sender |-> call[h].user,
             sender_id |-> _getUserIdFromUsername(call[h].user),
             message |-> call[h].text, timestamp |-> now])
    /\ loc' = [loc EXCEPT ![h].timestamp = now]
    /\ Respond(h, IF ret[h].ok THEN "OK" ELSE "ServerError")
    /\ UNCHANGED <<dbvars, ret, now, faults, hubvars>>

\* 206-229: 500 when the append failed; else getChatParticipants, the
\* current timestamp, the new_message event to the chat's room, and OK.
send_message_emit(h) ==
    /\ At(h, "ret")
    /\ call[h].route = "send_message"
    /\ IF ~ret[h].ok
       THEN Respond(h, "ServerError") /\ UNCHANGED <<sent, loc>>
       ELSE LET participants == getChatParticipants(View(h), call[h].chat)
                current_timestamp == now
            IN  /\ Emit(h, "new_message",
                        [chat_id |-> call[h].chat, sender |-> call[h].user,
                         sender_id |-> _getUserIdFromUsername(call[h].user),
                         message |-> call[h].text, timestamp |-> current_timestamp])
                /\ loc' = [loc EXCEPT ![h].timestamp = current_timestamp]
                /\ Respond(h, "OK")
    /\ UNCHANGED <<dbvars, ret, now, faults, hubvars>>

\* 213-232: socketio.emit raises (a delivery fault); the handler's except
\* clause answers 500.  The append is committed; sent records the emits that
\* completed.
send_message_emit_Error(h) ==
    /\ At(h, "ret")
    /\ call[h].route = "send_message"
    /\ ret[h].ok
    /\ faults < MaxFaults
    /\ faults' = faults + 1
    /\ loc' = [loc EXCEPT ![h].timestamp = now]
    /\ Respond(h, "ServerError")
    /\ UNCHANGED <<dbvars, ret, sent, now, hubvars>>

\* A variant of 236-250 that passes the list on as the request gave it.
create_chat_AsListed(h, username, participants) ==
    /\ RoomForConversation(h)
    /\ Request(h, [RouteCall("create_chat", username, None) EXCEPT
                      !.op = "createConversation", !.names = participants])
    /\ IF participants = <<>>
       THEN Respond(h, "BAD") /\ UNCHANGED <<loc, ret>>
       ELSE CreateConversation_Begin(h, participants) /\ UNCHANGED resp
    /\ UNCHANGED <<dbvars, sent, now, faults, hubvars>>

\* create_chat, 236-250: the session user joins the list, then
\* createConversation(*participants).
create_chat(h, username, participants) ==
    /\ RoomForConversation(h)
    /\ LET names == IF username \in Range(participants) THEN participants
                    ELSE Append(participants, username)
       IN  /\ Request(h, [RouteCall("create_chat", username, None) EXCEPT
                              !.op = "createConversation", !.names = names])
           /\ IF participants = <<>>
              THEN Respond(h, "BAD") /\ UNCHANGED <<loc, ret>>
              ELSE CreateConversation_Begin(h, names) /\ UNCHANGED resp
    /\ UNCHANGED <<dbvars, sent, now, faults, hubvars>>

\* 251-254
create_chat_respond(h) ==
    /\ At(h, "ret")
    /\ call[h].route = "create_chat"
    /\ Respond(h, IF ret[h].id # None THEN "OK" ELSE "ServerError")
    /\ UNCHANGED <<dbvars, loc, ret, sent, now, faults, hubvars>>

\* add_user_to_chat, 261-274: validation and the access check.
add_user_to_chat(h, username, chat_id, target) ==
    /\ Request(h, [RouteCall("add_user_to_chat", username, chat_id) EXCEPT
                      !.op = "addUserToConversation", !.target = target])
    /\ IF chat_id = None \/ target = None
       THEN Respond(h, "BAD")
       ELSE IF ~HasAccess(View(h), username, chat_id)
       THEN Respond(h, "AccessDenied")
       ELSE Goto(h, "au_begin") /\ UNCHANGED resp
    /\ UNCHANGED <<dbvars, loc, ret, sent, now, faults, hubvars>>

\* 277: addUserToConversation(chat_id, username)
add_user_to_chat_add(h) ==
    /\ At(h, "au_begin")
    /\ AddUser_Begin(h, call[h].chat, call[h].target)
    /\ UNCHANGED <<dbvars, resp, sent, now, faults, hubvars>>

\* A variant of 277-290 that notifies the room whatever the call returned.
add_user_to_chat_emit_Always(h) ==
    /\ At(h, "ret")
    /\ call[h].route = "add_user_to_chat"
    /\ Emit(h, "user_added",
            [chat_id |-> call[h].chat, username |-> call[h].target,
             added_by |-> call[h].user])
    /\ Respond(h, IF ret[h].ok THEN "OK" ELSE "ServerError")
    /\ UNCHANGED <<dbvars, loc, ret, now, faults, hubvars>>

\* 277-290: the user_added event on success, 500 otherwise.
add_user_to_chat_emit(h) ==
    /\ At(h, "ret")
    /\ call[h].route = "add_user_to_chat"
    /\ IF ret[h].ok
       THEN /\ Emit(h, "user_added",
                    [chat_id |-> call[h].chat, username |-> call[h].target,
                     added_by |-> call[h].user])
            /\ Respond(h, "OK")
       ELSE Respond(h, "ServerError") /\ UNCHANGED sent
    /\ UNCHANGED <<dbvars, loc, ret, now, faults, hubvars>>

\* update_chat_name, 297-310: the name is stripped; validation and the
\* access check.
update_chat_name(h, username, chat_id, name) ==
    /\ Request(h, [RouteCall("update_chat_name", username, chat_id) EXCEPT
                      !.op = "updateChatName", !.text = Strip(name)])
    /\ IF chat_id = None
       THEN Respond(h, "BAD")
       ELSE IF ~HasAccess(View(h), username, chat_id)
       THEN Respond(h, "AccessDenied")
       ELSE Goto(h, "un_begin") /\ UNCHANGED resp
    /\ UNCHANGED <<dbvars, loc, ret, sent, now, faults, hubvars>>

\* 313: updateChatName(chat_id, name)
update_chat_name_update(h) ==
    /\ At(h, "un_begin")
    /\ UpdateChatName_Begin(h, call[h].chat)
    /\ UNCHANGED <<dbvars, loc, resp, sent, now, faults, hubvars>>

\* 313-326: the chat_renamed event on success, 500 otherwise.
update_chat_name_emit(h) ==
    /\ At(h, "ret")
    /\ call[h].route = "update_chat_name"
    /\ IF ret[h].ok
       THEN /\ Emit(h, "chat_renamed",
                    [chat_id |-> call[h].chat, new_name |-> call[h].text,
                     renamed_by |-> call[h].user])
            /\ Respond(h, "OK")
       ELSE Respond(h, "ServerError") /\ UNCHANGED sent
    /\ UNCHANGED <<dbvars, loc, ret, now, faults, hubvars>>

-----------------------------------------------------------------------------
(* The socket handlers, src/app.py 393-429 *)

\* A socket event is handled: it counts like a request.
Handle ==
    /\ calls < MaxCalls
    /\ calls' = calls + 1

NoEvent == [event |-> "none", chat_id |-> 0, member |-> FALSE]

\* A variant of on_join_chat without the access check of 403-407.
on_join_chat_Unchecked(s, chat_id) ==
    /\ Handle
    /\ sid_user[s] \in SessionUsers
    /\ chat_id # None
    /\ rooms' = [rooms EXCEPT ![s] = @ \cup {chat_id}]
    /\ sock_out' = [sock_out EXCEPT ![s] =
            [event |-> "joined", chat_id |-> chat_id,
             member |-> _getUserIdFromUsername(sid_user[s]) \in Members(db, chat_id)]]
    /\ UNCHANGED <<dbvars, procvars, now, faults, sid_user, active_users, broadcast>>

\* on_join_chat, 393-411.  The handler's ChatDatabase is new: it reads the
\* committed database.  member records whether the user was a participant
\* (read by no action).
on_join_chat(s, chat_id) ==
    /\ Handle
    /\ sid_user[s] \in SessionUsers
    /\ chat_id # None
    /\ IF ~HasAccess(db, sid_user[s], chat_id)
       THEN /\ sock_out' = [sock_out EXCEPT ![s] =
                    [event |-> "error", chat_id |-> chat_id,
                     member |-> _getUserIdFromUsername(sid_user[s]) \in Members(db, chat_id)]]
            /\ UNCHANGED rooms
       ELSE /\ rooms' = [rooms EXCEPT ![s] = @ \cup {chat_id}]
            /\ sock_out' = [sock_out EXCEPT ![s] =
                    [event |-> "joined", chat_id |-> chat_id,
                     member |-> _getUserIdFromUsername(sid_user[s]) \in Members(db, chat_id)]]
    /\ UNCHANGED <<dbvars, procvars, now, faults, sid_user, active_users, broadcast>>

\* on_connect, 413-420: a socket of a session opens.
on_connect(s, session) ==
    /\ Handle
    /\ sid_user[s] = 0
    /\ sid_user' = [sid_user EXCEPT ![s] = session]
    /\ IF session # Anonymous
       THEN /\ active_users' = [active_users EXCEPT ![session] = s]
            /\ broadcast' = <<[username |-> session, status |-> "online"]>>
       ELSE UNCHANGED <<active_users, broadcast>>
    /\ UNCHANGED <<dbvars, procvars, now, faults, rooms, sock_out>>

\* on_disconnect, 422-429: the socket closes (and leaves its rooms).
on_disconnect(s) ==
    /\ Handle
    /\ sid_user[s] # 0
    /\ sid_user' = [sid_user EXCEPT ![s] = 0]
    /\ rooms' = [rooms EXCEPT ![s] = {}]
    /\ sock_out' = [sock_out EXCEPT ![s] = NoEvent]
    /\ LET username == sid_user[s]
       IN  IF username # Anonymous /\ active_users[username] # 0
           THEN /\ active_users' = [active_users EXCEPT ![username] = 0]
                /\ broadcast' = <<[username |-> username, status |-> "offline"]>>
           ELSE UNCHANGED <<active_users, broadcast>>
    /\ UNCHANGED <<dbvars, procvars, now, faults>>

-----------------------------------------------------------------------------
Init ==
    /\ db = EmptyDb
    /\ pend = EmptyDb
    /\ writer = NoHandle
    /\ pc = [h \in Handles |-> "idle"]
    /\ call = [h \in Handles |-> NoCall]
    /\ loc = [h \in Handles |-> NoLoc]
    /\ ret = [h \in Handles |-> NoRet]
    /\ resp = [h \in Handles |-> "none"]
    /\ sent = [h \in Handles |-> <<>>]
    /\ now = 1
    /\ faults = 0
    /\ calls = 0
    /\ sid_user = [s \in Sids |-> 0]
    /\ active_users = [u \in SessionUsers |-> 0]
    /\ rooms = [s \in Sids |-> {}]
    /\ sock_out = [s \in Sids |-> NoEvent]
    /\ broadcast = <<>>

-----------------------------------------------------------------------------
(* Specifications.  Each runs the handlers of one part of the engine, with
   two handles at work at once. *)

Bulk(n) == [i \in 1..n |-> i]

\* Conversation Registry: direct ChatDatabase calls of three users and an
\* unregistered name.
RegistryLists == {<<1, 2>>, <<2, 1>>, <<1, 1>>, <<1, 2, 3>>, <<1>>, <<1, Unknown>>}
RegistryNames == {1, 2, 3, Unknown}
ChatNames == {"team"}

NextRegistry ==
    \E h \in Handles :
        \/ \E usernames \in RegistryLists : createConversation(h, usernames)
        \/ CreateConversation_Write(h)
        \/ CreateConversation_Error(h)
        \/ \E c \in 1..MaxConvs, u \in RegistryNames : addUserToConversation(h, c, u)
        \/ AddUser_Member(h)
        \/ AddUser_Count(h)
        \/ AddUser_Write(h)
        \/ AddUser_Error(h)
        \/ \E c \in 1..MaxConvs, name \in ChatNames : updateChatName(h, c, name)
        \/ UpdateChatName_Write(h)
        \/ UpdateChatName_Error(h)
        \/ Release(h)

SpecRegistry == Init /\ [][NextRegistry]_vars

\* Creation: two handles create a direct and a group conversation, with
\* failing statements, and add a user to the conversations that exist.
NextCreation ==
    \E h \in Handles :
        \/ \E usernames \in {<<1, 2>>, <<1, 2, 3>>} : createConversation(h, usernames)
        \/ CreateConversation_Write(h)
        \/ CreateConversation_Error(h)
        \/ \E c \in 1..MaxConvs, u \in {3} : addUserToConversation(h, c, u)
        \/ AddUser_Member(h)
        \/ AddUser_Count(h)
        \/ AddUser_Write(h)
        \/ AddUser_Error(h)
        \/ Release(h)

SpecCreation == Init /\ [][NextCreation]_vars

\* Dedup: two handles ask for the direct conversation of users 1 and 2 while
\* a third user is added to the conversations that exist.
NextDedup ==
    \E h \in Handles :
        \/ \E usernames \in {<<1, 2>>, <<2, 1>>} : createConversation_Select(h, usernames)
        \/ CreateConversation_Return(h)
        \/ CreateConversation_Write(h)
        \/ CreateConversation_Error(h)
        \/ \E c \in 1..MaxConvs, u \in {3} : addUserToConversation(h, c, u)
        \/ AddUser_Member(h)
        \/ AddUser_Count(h)
        \/ AddUser_Write(h)
        \/ AddUser_Error(h)
        \/ Release(h)

SpecDedup == Init /\ [][NextDedup]_vars

\* Capacity: conversations of 15 to 17 users and the users that fill them.
CapacityLists == {Bulk(MaxParticipants - 1), Bulk(MaxParticipants),
                  Bulk(MaxParticipants + 1), Bulk(MaxParticipants) \o <<1>>}
CapacityNames == {1, MaxParticipants, MaxParticipants + 1}

NextCapacity ==
    \E h \in Handles :
        \/ \E usernames \in CapacityLists : createConversation(h, usernames)
        \/ CreateConversation_Write(h)
        \/ CreateConversation_Error(h)
        \/ \E c \in 1..MaxConvs, u \in CapacityNames : addUserToConversation(h, c, u)
        \/ AddUser_Member(h)
        \/ AddUser_Count(h)
        \/ AddUser_Write(h)
        \/ AddUser_Error(h)
        \/ Release(h)

SpecCapacity == Init /\ [][NextCapacity]_vars

\* Message Log: one direct conversation, appends by members and by an
\* outsider, reads, and the clock.
LogSenders == {1, 2, 3}
LogMessages == {Encrypt("hi"), <<>>}

NextLog ==
    \/ Tick
    \/ \E h \in Handles :
        \/ createConversation(h, <<1, 2>>)
        \/ CreateConversation_Write(h)
        \/ CreateConversation_Error(h)
        \/ \E c \in 1..MaxConvs, u \in LogSenders, m \in LogMessages :
              appendMessage(h, c, u, m)
        \/ AppendMessage_Write(h)
        \/ AppendMessage_Error(h)
        \/ \E c \in 1..MaxConvs : getChat(h, c)
        \/ GetChat_Conv(h)
        \/ GetChat_Messages(h)
        \/ Release(h)

SpecLog == Init /\ [][NextLog]_vars

\* Members: a direct conversation, also asked for with a repeated username,
\* and two handles that add users to the first conversation while the clock
\* runs.
MemberLists == {<<1, 2>>, <<1, 2, 2>>}
MemberNames == {2, 3}
MemberConvs == {1}

NextMembers ==
    \/ Tick
    \/ \E h \in Handles :
        \/ \E usernames \in MemberLists : createConversation(h, usernames)
        \/ CreateConversation_Write(h)
        \/ CreateConversation_Error(h)
        \/ \E c \in MemberConvs, u \in MemberNames : addUserToConversation(h, c, u)
        \/ AddUser_Member(h)
        \/ AddUser_Count(h)
        \/ AddUser_Write(h)
        \/ AddUser_Error(h)
        \/ Release(h)

SpecMembers == Init /\ [][NextMembers]_vars

\* Roster: conversations asked for with an unregistered name at every
\* position of the list, next to valid lists, while a third user is added.
RosterLists == {<<1, 2>>, <<Unknown, 1>>, <<1, Unknown>>, <<1, Unknown, 2>>,
                <<1, 2, Unknown>>, <<Unknown>>}
RosterNames == {3}

NextRoster ==
    \E h \in Handles :
        \/ \E usernames \in RosterLists : createConversation(h, usernames)
        \/ CreateConversation_Write(h)
        \/ CreateConversation_Error(h)
        \/ \E c \in 1..MaxConvs, u \in RosterNames : addUserToConversation(h, c, u)
        \/ AddUser_Member(h)
        \/ AddUser_Count(h)
        \/ AddUser_Write(h)
        \/ AddUser_Error(h)
        \/ Release(h)

SpecRoster == Init /\ [][NextRoster]_vars

\* Founders: users 1 and 3 ask for a chat with a list that names user 2
\* alone or users 1 and 2, and user 1 adds user 3 to the chats that exist.
NextFounder ==
    \E h \in Handles :
        \/ \E u \in {1, 3}, participants \in {<<2>>, <<1, 2>>} : create_chat(h, u, participants)
        \/ create_chat_respond(h)
        \/ CreateConversation_Write(h)
        \/ CreateConversation_Error(h)
        \/ \E c \in 1..MaxConvs, t \in {3} : add_user_to_chat(h, 1, c, t)
        \/ add_user_to_chat_add(h)
        \/ AddUser_Member(h)
        \/ AddUser_Count(h)
        \/ AddUser_Write(h)
        \/ AddUser_Error(h)
        \/ add_user_to_chat_emit(h)
        \/ Release(h)

SpecFounder == Init /\ [][NextFounder]_vars

\* Enrolment: user 1 creates a direct chat or a chat of 16 users through the
\* route, and users are added through the route and by direct calls: a third
\* user, a 17th user, an unregistered name; to stored and to absent chats.
EnrollLists == {<<2>>, [i \in 1..(MaxParticipants - 1) |-> i + 1]}
EnrollTargets == {3, NumUsers, Unknown}
EnrollNames == {NumUsers, Unknown}

NextEnroll ==
    \E h \in Handles :
        \/ \E participants \in EnrollLists : create_chat(h, 1, participants)
        \/ create_chat_respond(h)
        \/ CreateConversation_Write(h)
        \/ CreateConversation_Error(h)
        \/ \E c \in 1..MaxConvs, t \in EnrollTargets : add_user_to_chat(h, 1, c, t)
        \/ add_user_to_chat_add(h)
        \/ \E c \in 1..MaxConvs, u \in EnrollNames : addUserToConversation(h, c, u)
        \/ AddUser_Member(h)
        \/ AddUser_Count(h)
        \/ AddUser_Write(h)
        \/ AddUser_Error(h)
        \/ add_user_to_chat_emit(h)
        \/ Release(h)

SpecEnroll == Init /\ [][NextEnroll]_vars

\* Sending: user 1 creates a direct chat with user 2; the member and an
\* outsider send texts (one padded with blanks, an empty one, a blank one)
\* and read the chat, a socket joins rooms, and appendMessage is also called
\* with an empty message.
SendUsers == {1, 3}
SendTexts == {" hi ", "", " "}
SendSessions == {1}
SendSids == {1}

NextSend ==
    \/ \E h \in Handles :
        \/ create_chat(h, 1, <<2>>)
        \/ create_chat_respond(h)
        \/ CreateConversation_Write(h)
        \/ CreateConversation_Error(h)
        \/ \E u \in SendUsers, c \in 1..MaxConvs, m \in SendTexts :
              send_message(h, u, c, m)
        \/ send_message_append(h)
        \/ \E c \in 1..MaxConvs : appendMessage(h, c, 1, <<>>)
        \/ AppendMessage_Write(h)
        \/ AppendMessage_Error(h)
        \/ send_message_emit(h)
        \/ send_message_emit_Error(h)
        \/ \E c \in 1..MaxConvs : get_chat(h, 1, c)
        \/ get_chat_getChat(h)
        \/ GetChat_Conv(h)
        \/ GetChat_Messages(h)
        \/ get_chat_respond(h)
        \/ Release(h)
    \/ \E s \in SendSids :
        \/ \E u \in SendSessions : on_connect(s, u)
        \/ \E c \in 1..MaxConvs : on_join_chat(s, c)

SpecSend == Init /\ [][NextSend]_vars

\* Archive: a direct chat receives messages and is then promoted, renamed,
\* read, while another chat is created and a timezone is updated.
ArchiveLists == {<<1, 2>>, <<1, 3>>}
ArchiveSenders == {1, 2}
ArchiveNames == {3}
ArchiveZones == {"Europe/Paris"}

NextArchive ==
    \E h \in Handles :
        \/ \E usernames \in ArchiveLists : createConversation(h, usernames)
        \/ CreateConversation_Write(h)
        \/ CreateConversation_Error(h)
        \/ \E c \in 1..MaxConvs, u \in ArchiveSenders :
              appendMessage(h, c, u, Encrypt("hi"))
        \/ AppendMessage_Write(h)
        \/ AppendMessage_Error(h)
        \/ \E c \in 1..MaxConvs, u \in ArchiveNames : addUserToConversation(h, c, u)
        \/ AddUser_Member(h)
        \/ AddUser_Count(h)
        \/ AddUser_Write(h)
        \/ AddUser_Error(h)
        \/ \E c \in 1..MaxConvs, name \in ChatNames : updateChatName(h, c, name)
        \/ UpdateChatName_Write(h)
        \/ UpdateChatName_Error(h)
        \/ \E z \in ArchiveZones : updateUserTimezone(h, 1, z)
        \/ \E z \in ArchiveZones : UpdateUserTimezone_Error(h, 1, z)
        \/ \E c \in 1..MaxConvs : getChat(h, c)
        \/ GetChat_Conv(h)
        \/ GetChat_Messages(h)
        \/ Release(h)

SpecArchive == Init /\ [][NextArchive]_vars

\* Senders: a direct chat of users 1 and 2, a third user who is added to it,
\* and appends by a participant, by the third user and by an unregistered
\* name.
SenderAdds == {3}
SenderNames == {1, 3, Unknown}

NextSenders ==
    \E h \in Handles :
        \/ createConversation(h, <<1, 2>>)
        \/ CreateConversation_Write(h)
        \/ CreateConversation_Error(h)
        \/ \E c \in 1..MaxConvs, u \in SenderAdds : addUserToConversation(h, c, u)
        \/ AddUser_Member(h)
        \/ AddUser_Count(h)
        \/ AddUser_Write(h)
        \/ AddUser_Error(h)
        \/ \E c \in 1..MaxConvs, u \in SenderNames :
              appendMessage(h, c, u, Encrypt("hi"))
        \/ AppendMessage_Write(h)
        \/ AppendMessage_Error(h)
        \/ Release(h)

SpecSenders == Init /\ [][NextSenders]_vars

\* Stamps: the two participants of a direct chat send messages while the
\* clock runs.
NextStamp ==
    \/ Tick
    \/ \E h \in Handles :
        \/ create_chat(h, 1, <<2>>)
        \/ create_chat_respond(h)
        \/ CreateConversation_Write(h)
        \/ CreateConversation_Error(h)
        \/ \E u \in {1, 2}, c \in 1..MaxConvs, m \in {"hi"} :
              send_message(h, u, c, m)
        \/ send_message_append(h)
        \/ AppendMessage_Write(h)
        \/ AppendMessage_Error(h)
        \/ send_message_emit(h)
        \/ send_message_emit_Error(h)
        \/ Release(h)

SpecStamp == Init /\ [][NextStamp]_vars

\* Journal: the message log used by one handle, so that no two appends
\* overlap: two direct conversations, appends, the clock, persistence errors.
JournalLists == {<<1, 2>>, <<1, 3>>}
JournalSenders == {1, 3}

NextJournal ==
    \/ Tick
    \/ \E usernames \in JournalLists : createConversation("h1", usernames)
    \/ CreateConversation_Write("h1")
    \/ CreateConversation_Error("h1")
    \/ \E c \in 1..MaxConvs, u \in JournalSenders : appendMessage("h1", c, u, Encrypt("hi"))
    \/ AppendMessage_Write("h1")
    \/ AppendMessage_Error("h1")
    \/ Release("h1")

SpecJournal == Init /\ [][NextJournal]_vars

\* Access Guard: the routes, called by the creator of a chat and by a user
\* who is added to it later, and a socket that joins rooms.
AppUsers == {1, 3}
AppLists == {<<>>, <<2>>}
AppTargets == {None, 3}
AppMessages == {"hi", ""}
AppNames == {"team", " "}
AppSids == {1}

NextApp ==
    \/ \E h \in Handles :
        \/ \E participants \in AppLists : create_chat(h, 1, participants)
        \/ create_chat_respond(h)
        \/ CreateConversation_Write(h)
        \/ CreateConversation_Error(h)
        \/ \E u \in AppUsers, c \in 1..MaxConvs : get_chat(h, u, c)
        \/ get_chat_getChat(h)
        \/ GetChat_Conv(h)
        \/ GetChat_Messages(h)
        \/ get_chat_respond(h)
        \/ \E u \in AppUsers, c \in 1..MaxConvs, m \in AppMessages :
              send_message(h, u, c, m)
        \/ send_message_append(h)
        \/ AppendMessage_Write(h)
        \/ AppendMessage_Error(h)
        \/ send_message_emit(h)
        \/ \E u \in AppUsers, c \in 1..MaxConvs, t \in AppTargets :
              add_user_to_chat(h, u, c, t)
        \/ add_user_to_chat_add(h)
        \/ AddUser_Member(h)
        \/ AddUser_Count(h)
        \/ AddUser_Write(h)
        \/ AddUser_Error(h)
        \/ add_user_to_chat_emit(h)
        \/ \E u \in AppUsers, c \in 1..MaxConvs, name \in AppNames :
              update_chat_name(h, u, c, name)
        \/ update_chat_name_update(h)
        \/ UpdateChatName_Write(h)
        \/ UpdateChatName_Error(h)
        \/ update_chat_name_emit(h)
        \/ Release(h)
    \/ \E s \in AppSids :
        \/ \E u \in AppUsers : on_connect(s, u)
        \/ on_disconnect(s)
        \/ \E c \in 1..MaxConvs : on_join_chat(s, c)

SpecApp == Init /\ [][NextApp]_vars

\* Listing: getUserChats over stored conversations.  The run starts from a
\* database that sequential calls build: user 1 created a direct conversation
\* with each of the users 2, 3, ... at time 1 (conversation c = {1, c + 1}),
\* and each conversation then received no message or one message, appended
\* in the order of the timestamps.
ListingStamps == [1..MaxListed -> {None} \cup (1..MaxClock)]

RECURSIVE ListingMsgs(_, _)
ListingMsgs(stamps, k) ==
    IF k = 0 THEN <<>>
    ELSE LET t == ((k - 1) \div MaxListed) + 1
             c == ((k - 1) % MaxListed) + 1
         IN  IF stamps[c] = t
             THEN Append(ListingMsgs(stamps, k - 1),
                         [conversation_id |-> c, sender_id |-> 1,
                          message |-> Encrypt("hi"), timestamp |-> t,
                          stamped |-> TRUE])
             ELSE ListingMsgs(stamps, k - 1)

ListingDb(stamps) ==
    [convs |-> [c \in 1..MaxListed |->
                    [is_group |-> FALSE, name |-> NullName, created_at |-> 1,
                     last_message_at |-> stamps[c]]],
     parts |-> [c \in 1..MaxListed |->
                    {[user_id |-> 1, joined_at |-> 1], [user_id |-> c + 1, joined_at |-> 1]}],
     msgs  |-> ListingMsgs(stamps, MaxClock * MaxListed),
     tz    |-> <<>>]

InitListing ==
    /\ \E stamps \in ListingStamps : db = ListingDb(stamps)
    /\ pend = db
    /\ writer = NoHandle
    /\ pc = [h \in Handles |-> "idle"]
    /\ call = [h \in Handles |-> NoCall]
    /\ loc = [h \in Handles |-> NoLoc]
    /\ ret = [h \in Handles |-> NoRet]
    /\ resp = [h \in Handles |-> "none"]
    /\ sent = [h \in Handles |-> <<>>]
    /\ now = MaxClock
    /\ faults = 0
    /\ calls = 0
    /\ sid_user = [s \in Sids |-> 0]
    /\ active_users = [u \in SessionUsers |-> 0]
    /\ rooms = [s \in Sids |-> {}]
    /\ sock_out = [s \in Sids |-> NoEvent]
    /\ broadcast = <<>>

ListingUsers == {1, 2, 3, Unknown}

NextListing ==
    \/ \E u \in ListingUsers : getUserChats_Call("h1", u)
    \/ Release("h1")

SpecListing == InitListing /\ [][NextListing]_vars

\* Presence: sockets of two users and of a session that is not logged in.
PresenceSessions == {1, 2, Anonymous}

NextPresence ==
    \E s \in Sids :
        \/ \E u \in PresenceSessions : on_connect(s, u)
        \/ on_disconnect(s)

SpecPresence == Init /\ [][NextPresence]_vars

-----------------------------------------------------------------------------
(* Conversation Registry *)

\* C1: two createConversation calls for the same pair of users, however their
\* dedup lookups, inserts and commits interleave, leave exactly one non-group
\* conversation with that participant set: no two committed non-group
\* conversations have the same two participants.
C1_OneDirectConversationPerPair ==
    \A c1, c2 \in ConvIds(db) :
        (/\ ~db.convs[c1].is_group
         /\ ~db.convs[c2].is_group
         /\ Cardinality(Members(db, c1)) = 2
         /\ Members(db, c1) = Members(db, c2)) => c1 = c2

\* C2: in every reachable state every conversation has at least 2 distinct
\* participants; a username list with fewer than 2 distinct users creates
\* nothing.
C2_AtLeastTwoParticipants ==
    \A c \in ConvIds(db) : Cardinality(Members(db, c)) >= 2

\* C3: in every reachable state no conversation has more than 16
\* participants, whatever createConversation and addUserToConversation calls
\* ran and however they interleaved.
C3_AtMostSixteenParticipants ==
    \A c \in ConvIds(db) : Cardinality(Members(db, c)) <= 16

\* C6: is_group is monotone: a commit that takes a conversation from 2 to 3
\* participants leaves is_group true, and a conversation whose is_group is
\* true keeps it true in every later committed state.
C6_GroupFlagMonotone ==
    [][\A c \in ConvIds(db) :
          /\ db.convs[c].is_group => db'.convs[c].is_group
          /\ (Cardinality(Members(db, c)) = 2 /\ Cardinality(Members(db', c)) = 3)
                => db'.convs[c].is_group]_vars

-----------------------------------------------------------------------------
(* Message Log *)

\* C7: append is atomic: every committed message row comes with the
\* last_message_at update of its own append; a message whose append failed
\* between the two writes is never committed by a later operation of the
\* same handle.
C7_AppendAtomic ==
    \A i \in DOMAIN db.msgs : db.msgs[i].stamped

\* C8: once the appends to a conversation have committed, its last_message_at
\* is the greatest timestamp among its messages: no committed message of the
\* conversation is newer than last_message_at.
C8_LastMessageAtIsGreatest ==
    \A c \in ConvIds(db) : \A i \in MsgIds(db, c) :
        /\ db.convs[c].last_message_at # None
        /\ db.msgs[i].timestamp <= db.convs[c].last_message_at

\* C9: getChat returns the messages of a conversation in ascending
\* (timestamp, id) order: messages with equal timestamps come in ascending
\* id order.
C9_FetchOrderedByTimestampAndId ==
    \A h \in Handles :
        (pc[h] = "ret" /\ call[h].op = "getChat" /\ ret[h].chat # <<>>) =>
            LET messages == ret[h].chat[1].messages
            IN  \A i, j \in DOMAIN messages : i < j =>
                    \/ messages[i].timestamp < messages[j].timestamp
                    \/ /\ messages[i].timestamp = messages[j].timestamp
                       /\ messages[i].id < messages[j].id

-----------------------------------------------------------------------------
(* Access Guard *)

AuthorizedRoutes == {"get_chat", "send_message", "add_user_to_chat", "update_chat_name"}

\* The request passes the route's input validation.
WellFormed(c) ==
    CASE c.route = "send_message" -> c.text # "" /\ Strip(c.text) # "" /\ c.chat # None
      [] c.route = "add_user_to_chat" -> c.chat # None /\ c.target # None
      [] c.route = "update_chat_name" -> c.chat # None
      [] OTHER -> TRUE

\* C4, as stated: a user who is not a participant of an existing conversation
\* receives AccessDenied from every authorized route on it, whatever the
\* other request fields are.
C4_NonMemberAlwaysDenied ==
    \A h \in Handles :
        (/\ call[h].route \in AuthorizedRoutes
         /\ call[h].chat \in ConvIds(db)
         /\ ~call[h].member
         /\ pc[h] = "resp") => resp[h] = "AccessDenied"

\* C4, amended: a request of a user who is not a participant is answered at
\* once, with AccessDenied when it passes the route's input validation and
\* with BAD when it does not; it reaches no ChatDatabase write and emits no
\* event.
C4_NonMemberDeniedWhenWellFormed ==
    \A h \in Handles :
        (call[h].route \in AuthorizedRoutes /\ ~call[h].member) =>
            /\ pc[h] = "resp"
            /\ resp[h] = IF WellFormed(call[h]) THEN "AccessDenied" ELSE "BAD"
            /\ sent[h] = <<>>
            /\ writer # h

\* C4, reached: a user who is not a participant of an existing conversation
\* sent a well-formed message to it and was denied.
C4_OutsiderDenied ==
    \E h \in Handles :
        /\ call[h].route = "send_message"
        /\ call[h].chat \in ConvIds(db)
        /\ ~call[h].member
        /\ _getUserIdFromUsername(call[h].user) \notin Members(db, call[h].chat)
        /\ WellFormed(call[h])
        /\ resp[h] = "AccessDenied"

\* C5: a user who is a participant of a conversation never receives
\* AccessDenied from get_chat, send_message, add_user_to_chat,
\* update_chat_name or join_chat on it, also after the conversation became a
\* group chat.
C5_MemberNeverDenied ==
    /\ \A h \in Handles :
          (call[h].route \in AuthorizedRoutes /\ call[h].member) =>
              resp[h] # "AccessDenied"
    /\ \A s \in Sids : sock_out[s].member => sock_out[s].event # "error"

\* C5, reached: the socket of a user who was added to a direct conversation,
\* which made it a group chat, joined the room of that conversation.
C5_AddedMemberJoined ==
    \E s \in Sids :
        /\ sock_out[s].event = "joined"
        /\ sock_out[s].member
        /\ sock_out[s].chat_id \in rooms[s]
        /\ db.convs[sock_out[s].chat_id].is_group
        /\ sid_user[s] = 3

-----------------------------------------------------------------------------
(* Presence *)

\* C10: while a user still has a live connection, the last presence event
\* broadcast for the user is not 'offline': the disconnect of one of two
\* sessions does not announce the user offline.
C10_NoOfflineWhileConnected ==
    \A u \in SessionUsers :
        (broadcast = <<[username |-> u, status |-> "offline"]>>) =>
            \A s \in Sids : sid_user[s] # u

-----------------------------------------------------------------------------
(* Conversation Registry, continued *)

\* The committed non-group conversations whose participants are precisely
\* user_ids.
DirectFor(d, user_ids) ==
    {c \in ConvIds(d) : ~d.convs[c].is_group /\ Members(d, c) = user_ids}

\* C11: createConversation with exactly two distinct registered users, when a
\* non-group conversation of precisely those two is committed, returns the id
\* of such a conversation at once and adds no conversation row and no
\* participant row (a second call meets the same state and returns the same).
C11_SequentialDedup ==
    [][\A h \in Handles, usernames \in RegistryLists :
          (/\ createConversation(h, usernames)
           /\ None \notin UserIdsOf(usernames)
           /\ Cardinality(UserIdsOf(usernames)) = 2
           /\ DirectFor(db, UserIdsOf(usernames)) # {})
          => /\ pc'[h] = "ret"
             /\ ret'[h].id = Min(DirectFor(db, UserIdsOf(usernames)))
             /\ db' = db]_vars

\* C12: the flip to a group chat is atomic with the membership insert: in
\* every committed state a conversation with is_group true has at least 3
\* participants.
C12_GroupHasThreeParticipants ==
    \A c \in ConvIds(db) : db.convs[c].is_group => Cardinality(Members(db, c)) >= 3

-----------------------------------------------------------------------------
(* Delivery Hub *)

\* The session user of socket s is a participant of chat_id.
SocketMember(s, chat_id) ==
    /\ sid_user[s] \in SessionUsers
    /\ _getUserIdFromUsername(sid_user[s]) \in Members(db, chat_id)

\* C13, as stated: join_chat by a user who is not a participant of an
\* existing conversation fails silently: the socket joins no room and no event is sent to it or to
\* anyone else.
C13_OutsiderJoinSilent ==
    [][\A s \in Sids, c \in 1..MaxConvs :
          (on_join_chat(s, c) /\ c \in ConvIds(db) /\ ~SocketMember(s, c))
          => UNCHANGED <<rooms, sock_out, broadcast, sent>>]_vars

\* C13, amended: join_chat by a user who is not a participant leaves every
\* room as it was and sends one 'error' event (Access denied) to the
\* requesting socket alone; nothing goes to any other socket, to a room or to
\* everyone.
C13_OutsiderJoinRefused ==
    [][\A s \in Sids, c \in 1..MaxConvs :
          (on_join_chat(s, c) /\ ~SocketMember(s, c))
          => /\ rooms' = rooms
             /\ c \notin rooms'[s]
             /\ sock_out'[s].event = "error"
             /\ sock_out'[s].chat_id = c
             /\ \A t \in Sids \ {s} : sock_out'[t] = sock_out[t]
             /\ broadcast' = broadcast
             /\ sent' = sent]_vars

\* C13, reached: a socket whose user is not a participant of an existing
\* conversation asked to join its room and got the 'error' event.
C13_OutsiderGotError ==
    \E s \in Sids :
        /\ sock_out[s].event = "error"
        /\ sock_out[s].chat_id \in ConvIds(db)
        /\ ~SocketMember(s, sock_out[s].chat_id)
        /\ sock_out[s].chat_id \notin rooms[s]

\* C14: every socket subscribed to the room of a conversation belongs to a
\* participant of it, and an event emitted to the room goes only to sockets
\* of participants.
C14_RoomsHoldParticipants ==
    /\ [](\A s \in Sids : \A c \in rooms[s] : SocketMember(s, c))
    /\ [][\A h \in Handles :
             Len(sent'[h]) > Len(sent[h]) =>
                 LET e == sent'[h][Len(sent'[h])]
                 IN  \A t \in e.to : SocketMember(t, e.room)]_vars

\* C14, reached: a message event was emitted to the room of a conversation
\* while the socket of a participant was subscribed to it.
C14_DeliveredToParticipant ==
    \E h \in Handles, s \in Sids :
        /\ Len(sent[h]) = 1
        /\ sent[h][1].event = "new_message"
        /\ s \in sent[h][1].to
        /\ sent[h][1].room \in rooms[s]
        /\ SocketMember(s, sent[h][1].room)

-----------------------------------------------------------------------------
(* Capacity of createConversation *)

\* C15: createConversation with registered users (at least 2 distinct) is
\* refused for too many participants exactly when the number of distinct
\* usernames exceeds 16; a longer list with at most 16 distinct usernames is
\* not refused.
C15_RefusedIffOverSixteenDistinct ==
    [][\A h \in Handles, usernames \in CapacityLists :
          (/\ createConversation(h, usernames)
           /\ None \notin UserIdsOf(usernames)
           /\ Cardinality(UserIdsOf(usernames)) >= 2)
          => ((pc'[h] = "ret" /\ ret'[h].id = None)
                <=> Cardinality(UserIdsOf(usernames)) > 16)]_vars

-----------------------------------------------------------------------------
(* Listing *)

\* C16: getUserChats(u) returns exactly the conversations u participates in,
\* each once, ordered by last_message_at descending with the conversations
\* without messages last, and the empty list for an unknown user.
C16_ListingExactAndOrdered ==
    \A h \in Handles :
        (pc[h] = "ret" /\ call[h].op = "getUserChats") =>
            LET ids == ret[h].ids
                u == call[h].user
                last(c) == db.convs[c].last_message_at
            IN  IF u \notin Registered THEN ids = <<>>
                ELSE /\ Range(ids) = {c \in ConvIds(db) : u \in Members(db, c)}
                     /\ Len(ids) = Cardinality(Range(ids))
                     /\ \A i, j \in DOMAIN ids : i < j =>
                            \/ last(ids[j]) = None
                            \/ last(ids[i]) # None /\ last(ids[i]) >= last(ids[j])

\* C16, reached: conversations 1, 2, 3 with last_message_at 1, none, 2 are
\* listed for their common participant as 3, 1, 2.
C16_ListedNewestFirst ==
    \E h \in Handles :
        /\ pc[h] = "ret"
        /\ call[h].op = "getUserChats"
        /\ call[h].user = 1
        /\ db.convs[1].last_message_at = 1
        /\ db.convs[2].last_message_at = None
        /\ db.convs[3].last_message_at = 2
        /\ ret[h].ids[1] = 3 /\ ret[h].ids[2] = 1 /\ ret[h].ids[3] = 2

-----------------------------------------------------------------------------
(* Message Log, continued *)

\* C17: without concurrent appends, right after a successful append to a
\* conversation its last_message_at is the timestamp stored on the appended
\* message, and in every committed state a conversation has no
\* last_message_at exactly when it has no message.
C17_LastMessageAtTracksAppends ==
    /\ \A c \in ConvIds(db) :
          db.convs[c].last_message_at = None <=> MsgIds(db, c) = {}
    /\ \A h \in Handles :
          (pc[h] = "ret" /\ call[h].op = "appendMessage" /\ ret[h].ok) =>
              /\ db.msgs # <<>>
              /\ db.msgs[Len(db.msgs)].conversation_id = call[h].chat
              /\ db.msgs[Len(db.msgs)].timestamp =
                     db.convs[call[h].chat].last_message_at

-----------------------------------------------------------------------------
(* Membership *)

\* C18: addUserToConversation for a user who is already a participant of the
\* conversation returns True and writes nothing: from the call to its return
\* the committed database, every open transaction and the writer lock stay
\* as they were, so the participants, every joined_at, is_group, name and
\* last_message_at are unchanged however often the call is repeated.
C18_AddMemberIsNoOp ==
    [][\A h \in Handles :
          /\ \A c \in MemberConvs, u \in MemberNames :
                (addUserToConversation(h, c, u)
                    /\ _getUserIdFromUsername(u) \in Members(db, c))
                => (pc'[h] = "au_member" /\ UNCHANGED dbvars)
          /\ (AddUser_Member(h) /\ loc[h].user_id \in Members(db, call[h].chat))
                => (pc'[h] = "ret" /\ ret'[h].ok /\ UNCHANGED dbvars)]_vars

\* C18, reached: a call for a participant of the conversation returned True
\* from the membership check.
C18_MemberAddedAgain ==
    \E h \in Handles :
        /\ pc[h] = "ret"
        /\ call[h].op = "addUserToConversation"
        /\ ret[h].ok
        /\ loc[h].count = 0
        /\ loc[h].user_id \in Members(db, call[h].chat)

\* C19: (conversation_id, user_id) identifies at most one participant row,
\* in the committed database and in every open transaction.
C19_OneRowPerParticipant ==
    \A d \in {db, pend} : \A c \in ConvIds(d) : \A p, q \in d.parts[c] :
        p.user_id = q.user_id => p = q

\* C19, reached: two calls added the same user to one conversation at the
\* same time; both passed the membership check and the count, one inserted
\* the row, and the other was refused at its INSERT.
C19_SecondInsertRefused ==
    \E g, h \in Handles :
        /\ g # h
        /\ pc[g] = "ret" /\ pc[h] = "ret"
        /\ call[g].op = "addUserToConversation"
        /\ call[h].op = "addUserToConversation"
        /\ call[g].chat = call[h].chat
        /\ call[g].target = call[h].target
        /\ ret[g].ok /\ ~ret[h].ok
        /\ loc[g].count > 0 /\ loc[h].count > 0
        /\ faults = 0
        /\ writer = h

-----------------------------------------------------------------------------
(* Renaming *)

\* C20: updateChatName on a conversation that is absent or whose committed
\* is_group is false fails at once and leaves the database as it was; on a
\* group conversation its commit sets the name of that conversation and
\* changes nothing else.
C20_RenameOnlyGroups ==
    [][\A h \in Handles :
          /\ \A c \in 1..MaxConvs, name \in ChatNames :
                (updateChatName(h, c, name)
                    /\ (c \notin ConvIds(db) \/ ~db.convs[c].is_group))
                => (pc'[h] = "ret" /\ ~ret'[h].ok /\ db' = db)
          /\ UpdateChatName_Write(h)
                => db' = SetName(db, call[h].chat, call[h].text)]_vars

-----------------------------------------------------------------------------
(* Failures *)

\* C21: createConversation with an unregistered username at any position of
\* the list returns None at once and writes nothing: the committed database,
\* every open transaction and the writer lock stay as they were, and no
\* committed conversation ever has a participant row of an unregistered user.
C21_UnknownNameCreatesNothing ==
    /\ [](\A c \in ConvIds(db) : Members(db, c) \subseteq Registered)
    /\ [][\A h \in Handles : \A usernames \in RosterLists :
             (createConversation(h, usernames) /\ Unknown \in Range(usernames))
             => (pc'[h] = "ret" /\ ret'[h].id = None /\ UNCHANGED dbvars)]_vars

\* C21, reached: with a conversation stored, a list of three names whose
\* last name is unregistered was refused.
C21_LastNameUnknownRefused ==
    \E h \in Handles :
        /\ pc[h] = "ret"
        /\ call[h].op = "createConversation"
        /\ call[h].names = <<1, 2, Unknown>>
        /\ ret[h].id = None
        /\ Len(db.convs) = 1

\* The reasons of C22 for which addUserToConversation, running on handle h
\* for conversation c and username u, refuses before it writes.
AddRefusedAtLookup(h, c, u) ==
    _getUserIdFromUsername(u) = None \/ c \notin ConvIds(View(h))

AddRefusedAtCount(h) ==
    Cardinality(View(h).parts[call[h].chat]) >= MaxParticipants

\* C22: addUserToConversation for an unregistered user, for an absent
\* conversation, or for a conversation that has 16 participants returns
\* False and writes nothing (the committed database, every open transaction
\* and the writer lock stay as they were, so no conversation's participants
\* or is_group change); the route then answers with an error and emits
\* nothing: a request emits user_added only after its call returned True.
C22_RefusedAddChangesNothing ==
    /\ [](\A h \in Handles : sent[h] # <<>> => (ret[h].ok /\ resp[h] = "OK"))
    /\ [][\A h \in Handles :
             /\ \A c \in 1..MaxConvs, u \in EnrollNames :
                   (addUserToConversation(h, c, u) /\ AddRefusedAtLookup(h, c, u))
                   => (pc'[h] = "ret" /\ ~ret'[h].ok /\ UNCHANGED dbvars)
             /\ (add_user_to_chat_add(h)
                    /\ AddRefusedAtLookup(h, call[h].chat, call[h].target))
                   => (pc'[h] = "ret" /\ ~ret'[h].ok /\ UNCHANGED dbvars)
             /\ (AddUser_Count(h) /\ AddRefusedAtCount(h))
                   => (pc'[h] = "ret" /\ ~ret'[h].ok /\ UNCHANGED dbvars)
             /\ (add_user_to_chat_emit(h) /\ ~ret[h].ok)
                   => (resp'[h] = "ServerError" /\ sent' = sent
                        /\ UNCHANGED dbvars)]_vars

\* C22, reached: the route was asked to add a 17th user to a chat of 16; the
\* call was refused at the count, and the request ended with an error and
\* without an event.
C22_SeventeenthUserRefused ==
    \E h \in Handles :
        /\ pc[h] = "resp"
        /\ call[h].route = "add_user_to_chat"
        /\ call[h].target = NumUsers
        /\ resp[h] = "ServerError"
        /\ sent[h] = <<>>
        /\ Cardinality(Members(db, call[h].chat)) = MaxParticipants
        /\ faults = 0

-----------------------------------------------------------------------------
(* Sending *)

\* C23: send_message with an empty or blank message answers BAD at once,
\* whoever sends it and to whatever chat: it starts no append, the committed
\* database, every open transaction and the writer lock stay as they were
\* (no message row, last_message_at unchanged), and it emits nothing.
\* appendMessage with an empty message returns False and writes nothing.
C23_EmptyMessageRejected ==
    [][\A h \in Handles :
          /\ \A u \in SendUsers, c \in 1..MaxConvs, m \in SendTexts :
                (send_message(h, u, c, m) /\ Strip(m) = "")
                => (pc'[h] = "resp" /\ resp'[h] = "BAD"
                     /\ UNCHANGED dbvars /\ sent' = sent)
          /\ \A c \in 1..MaxConvs :
                appendMessage(h, c, 1, <<>>)
                => (pc'[h] = "ret" /\ ~ret'[h].ok /\ UNCHANGED dbvars)]_vars

\* C23, reached: a participant of a chat that holds a message sent a blank
\* message to it and got BAD, with no event.
C23_BlankMessageGotBad ==
    \E h \in Handles :
        /\ pc[h] = "resp"
        /\ call[h].route = "send_message"
        /\ call[h].text = " "
        /\ call[h].member
        /\ resp[h] = "BAD"
        /\ sent[h] = <<>>
        /\ Len(db.msgs) = 1
        /\ db.convs[call[h].chat].last_message_at # None

\* The message of the send_message request on handle h is a committed row.
SendCommitted(h) ==
    \E i \in DOMAIN db.msgs :
        /\ db.msgs[i].conversation_id = call[h].chat
        /\ db.msgs[i].sender_id = _getUserIdFromUsername(call[h].user)
        /\ db.msgs[i].message = call[h].message

\* C24: a send_message request that is answered OK has emitted exactly one
\* event, a new_message addressed to the room of its chat, and it emitted it
\* when its message was already committed; a request that is refused (BAD,
\* access denied) or whose appendMessage returned False has emitted nothing.
C24_OneEventAfterCommit ==
    /\ [](\A h \in Handles : call[h].route = "send_message" =>
            /\ resp[h] = "OK" =>
                  /\ Len(sent[h]) = 1
                  /\ sent[h][1].event = "new_message"
                  /\ sent[h][1].room = call[h].chat
                  /\ SendCommitted(h)
            /\ resp[h] \in {"BAD", "AccessDenied"} => sent[h] = <<>>
            /\ (resp[h] = "ServerError" /\ ~ret[h].ok) => sent[h] = <<>>
            /\ sent[h] # <<>> => (ret[h].ok /\ resp[h] = "OK"))
    /\ [][\A h \in Handles :
             (send_message_emit(h) /\ ret[h].ok)
             => (SendCommitted(h) /\ Len(sent'[h]) = 1 /\ resp'[h] = "OK")]_vars

\* C24, reached: a message was sent to a chat whose room a socket had
\* joined; the request was answered OK and its one event went to that room.
C24_EventReachedRoom ==
    \E h \in Handles :
        /\ call[h].route = "send_message"
        /\ resp[h] = "OK"
        /\ Len(sent[h]) = 1
        /\ sent[h][1].room = call[h].chat
        /\ sent[h][1].to = {1}

\* C25: whatever happens while the new_message event is fanned out, a
\* send_message request whose appendMessage returned True ends with its
\* message committed and with the answer OK.
C25_DeliveryFaultNotPropagated ==
    \A h \in Handles :
        (call[h].route = "send_message" /\ pc[h] = "resp" /\ ret[h].ok)
        => (SendCommitted(h) /\ resp[h] = "OK")

\* C26: every new_message event carries the text its sender submitted, as
\* submitted, with the sender's username and id; every message row, committed
\* or in an open transaction, holds the token that encrypt_message made of
\* the submitted text, never the text itself.
C26_PlaintextOutCiphertextStored ==
    /\ \A h \in Handles : \A i \in DOMAIN sent[h] :
          /\ sent[h][i].event = "new_message"
          /\ sent[h][i].payload.message = call[h].text
          /\ sent[h][i].payload.message \in SendTexts
          /\ sent[h][i].payload.sender = call[h].user
          /\ sent[h][i].payload.sender_id = _getUserIdFromUsername(call[h].user)
    /\ \A d \in {db, pend} : \A i \in DOMAIN d.msgs :
          /\ IsToken(d.msgs[i].message)
          /\ Decrypt(d.msgs[i].message) \in SendTexts
    /\ \A h \in Handles :
          (call[h].route = "send_message" /\ pc[h] = "am_write")
          => call[h].message = Encrypt(call[h].text)

\* C26, reached: the text " hi " was sent; its event carries " hi " and the
\* committed row holds the token of " hi ".
C26_SentPlainStoredToken ==
    \E h \in Handles :
        /\ resp[h] = "OK"
        /\ Len(sent[h]) = 1
        /\ sent[h][1].payload.message = " hi "
        /\ sent[h][1].payload.sender_id = 1
        /\ db.msgs[Len(db.msgs)].message = Encrypt(" hi ")

\* C29: send_message stores the token of the submitted text, and
\* decrypt_message gives that text back; every message of a chat that
\* get_chat answers with is the decryption of the stored row with the same
\* id, which is a text that was submitted, blanks included.
C29_SendThenFetchRoundTrips ==
    /\ [](\A h \in Handles :
            (call[h].route = "get_chat" /\ resp[h] = "OK") =>
                \A i \in DOMAIN ret[h].chat[1].messages :
                    LET m == ret[h].chat[1].messages[i]
                    IN  /\ m.id \in DOMAIN db.msgs
                        /\ m.message = <<Decrypt(db.msgs[m.id].message)>>
                        /\ m.message \in {<<t>> : t \in {x \in SendTexts : Strip(x) # ""}})
    /\ [][\A h \in Handles :
             (AppendMessage_Write(h) /\ call[h].route = "send_message")
             => /\ db'.msgs[Len(db'.msgs)].message = Encrypt(call[h].text)
                /\ Decrypt(db'.msgs[Len(db'.msgs)].message) = call[h].text
                /\ \A i \in DOMAIN db.msgs : db'.msgs[i] = db.msgs[i]]_vars

\* C29, reached: the text " hi " was sent and get_chat returned it as " hi ".
C29_FetchedWhatWasSent ==
    \E h \in Handles :
        /\ call[h].route = "get_chat"
        /\ resp[h] = "OK"
        /\ Len(ret[h].chat[1].messages) = 1
        /\ ret[h].chat[1].messages[1].message = <<" hi ">>

-----------------------------------------------------------------------------
(* The log *)

\* C27: no step changes or removes a committed message row, and the steps
\* in which createConversation, addUserToConversation, updateChatName and
\* updateUserTimezone write leave the committed message rows of every
\* conversation exactly as they were.
C27_LogAppendOnly ==
    [][/\ \A i \in DOMAIN db.msgs :
            i \in DOMAIN db'.msgs /\ db'.msgs[i] = db.msgs[i]
       /\ \A h \in Handles :
            (\/ CreateConversation_Write(h)
             \/ AddUser_Write(h)
             \/ UpdateChatName_Write(h)
             \/ \E z \in ArchiveZones : updateUserTimezone(h, 1, z))
            => db'.msgs = db.msgs]_vars

\* C28: the sender of every committed message is a participant of the
\* message's conversation, and appendMessage by an unregistered name or by
\* a user who is not a participant of the conversation returns False at once
\* and leaves the committed database as it was.
C28_SenderIsParticipant ==
    /\ [](\A i \in DOMAIN db.msgs :
            db.msgs[i].sender_id \in Members(db, db.msgs[i].conversation_id))
    /\ [][\A h \in Handles : \A c \in 1..MaxConvs, u \in SenderNames :
             (appendMessage(h, c, u, Encrypt("hi"))
                 /\ _getUserIdFromUsername(u) \notin Members(db, c))
             => (pc'[h] = "ret" /\ ~ret'[h].ok /\ db' = db)]_vars

-----------------------------------------------------------------------------
(* Promotion *)

\* C30: in every committed state a conversation whose is_group is false has
\* at most 2 participants, however the addUserToConversation calls on it
\* interleave.
C30_DirectHasAtMostTwo ==
    \A c \in ConvIds(db) :
        ~db.convs[c].is_group => Cardinality(Members(db, c)) <= 2

-----------------------------------------------------------------------------
(* Reported timestamps *)

\* C31: the timestamp that an answered send_message request reports, in its
\* response and in the payload of its new_message event, is the timestamp of
\* a committed message row of that request's chat, sender and message.
C31_ReportedTimestampIsStored ==
    \A h \in Handles :
        (call[h].route = "send_message" /\ resp[h] = "OK") =>
            \E i \in DOMAIN db.msgs :
                /\ db.msgs[i].conversation_id = call[h].chat
                /\ db.msgs[i].sender_id = _getUserIdFromUsername(call[h].user)
                /\ db.msgs[i].message = call[h].message
                /\ db.msgs[i].timestamp = sent[h][1].payload.timestamp
                /\ db.msgs[i].timestamp = loc[h].timestamp

-----------------------------------------------------------------------------
(* Presence map *)

\* C32: the presence map has an entry for a username exactly when a socket of
\* that user is connected, and the socket id stored in the entry is one of the
\* connected sockets of that user.
C32_PresenceMatchesConnections ==
    \A u \in SessionUsers :
        /\ (active_users[u] # 0) <=> (\E s \in Sids : sid_user[s] = u)
        /\ (active_users[u] # 0) => sid_user[active_users[u]] = u

-----------------------------------------------------------------------------
(* Operations of a user who is not a participant *)

\* C33: get_chat, send_message, add_user_to_chat, update_chat_name and
\* join_chat on a conversation by a user who is not a participant of it change
\* nothing: the request is answered in its first step, conversations,
\* participants, messages and room subscriptions stay as they are and no
\* event goes to a room.  (A step of join_chat is a socket event that is
\* neither a connect nor a disconnect.)
C33_OutsiderChangesNothing ==
    [][/\ \A h \in Handles :
            (/\ call'[h] # call[h]
             /\ call'[h].route \in AuthorizedRoutes
             /\ _getUserIdFromUsername(call'[h].user) \notin Members(db, call'[h].chat))
            => /\ pc'[h] = "resp"
               /\ db' = db
               /\ writer' = writer
               /\ rooms' = rooms
               /\ sent'[h] = <<>>
               /\ \A g \in Handles \ {h} : sent'[g] = sent[g]
       /\ (calls' # calls /\ call' = call /\ sid_user' = sid_user) =>
            /\ db' = db
            /\ writer' = writer
            /\ sent' = sent
            /\ \A s \in Sids, c \in 1..MaxConvs :
                  ~SocketMember(s, c) => (c \in rooms'[s] <=> c \in rooms[s])]_vars

\* C33, reached: a user who is not a participant of an existing conversation
\* asked to add a user to it and was refused, while a socket of a user who is
\* not a participant asked to join its room and was refused.
C33_OutsiderAddAndJoinRefused ==
    /\ \E h \in Handles :
          /\ call[h].route = "add_user_to_chat"
          /\ call[h].chat \in ConvIds(db)
          /\ call[h].target # None
          /\ _getUserIdFromUsername(call[h].user) \notin Members(db, call[h].chat)
          /\ resp[h] = "AccessDenied"
    /\ \E s \in Sids :
          /\ sock_out[s].event = "error"
          /\ sock_out[s].chat_id \in ConvIds(db)
          /\ ~SocketMember(s, sock_out[s].chat_id)

-----------------------------------------------------------------------------
(* Message ids and timestamps *)

\* C34: within one conversation message ids and timestamps agree: of two
\* committed messages of the same conversation the one with the smaller id
\* has no greater timestamp.
C34_IdsAndTimestampsAgree ==
    \A i, j \in DOMAIN db.msgs :
        (i < j /\ db.msgs[i].conversation_id = db.msgs[j].conversation_id) =>
            db.msgs[i].timestamp <= db.msgs[j].timestamp

-----------------------------------------------------------------------------
(* Atomic creation *)

\* C35: createConversation commits the conversation row together with all of
\* its participant rows or not at all: a conversation row appears in the
\* committed state only in the step in which a createConversation call
\* commits, with the participant rows of every user that call asked for.
C35_CreationAllOrNothing ==
    [][\A c \in ConvIds(db') \ ConvIds(db) :
          \E h \in Handles :
              /\ pc[h] = "cc_write"
              /\ pc'[h] = "ret"
              /\ ret'[h].id = c
              /\ Members(db', c) = UserIdsOf(call[h].names)
              /\ Cardinality(db'.parts[c]) = Cardinality(UserIdsOf(call[h].names))]_vars

\* C35, reached: with nothing committed yet, a createConversation call for
\* three users failed in one of its statements, rolled back and returned
\* None: no conversation row and no participant row is committed.
C35_FailedCreationLeftNothing ==
    \E h \in Handles :
        /\ call[h].op = "createConversation"
        /\ UserIdsOf(call[h].names) = {1, 2, 3}
        /\ pc[h] = "ret"
        /\ ret[h].id = None
        /\ faults = 1
        /\ writer = NoHandle
        /\ db = EmptyDb

-----------------------------------------------------------------------------
(* user_added events *)

\* C36: a user_added event is emitted only by a request that created the
\* participant row: an add_user_to_chat request for a user who is already a
\* participant (addUserToConversation returned True at 565, before the
\* count and the INSERT) emits no event.
C36_NoEventForExistingMember ==
    \A h \in Handles :
        (/\ call[h].route = "add_user_to_chat"
         /\ pc[h] \in {"ret", "resp"}
         /\ ret[h].ok
         /\ loc[h].count = 0)
        => sent[h] = <<>>

-----------------------------------------------------------------------------
(* The id returned for a pair *)

\* C37: when createConversation returns an id for exactly two distinct
\* users, the committed conversation of that id is, at the moment of the
\* return, a non-group conversation whose participants are exactly those two
\* users.
C37_ReturnedIdIsDirectOfPair ==
    [][\A h \in Handles :
          (/\ call'[h].op = "createConversation"
           /\ Cardinality(UserIdsOf(call'[h].names)) = 2
           /\ pc[h] # "ret"
           /\ pc'[h] = "ret"
           /\ ret'[h].id # None)
          => /\ ret'[h].id \in ConvIds(db')
             /\ ~db'.convs[ret'[h].id].is_group
             /\ Members(db', ret'[h].id) = UserIdsOf(call'[h].names)]_vars

-----------------------------------------------------------------------------
(* The requester of a chat *)

\* C38: the conversation whose id a create_chat request answers with OK is
\* committed and has the requesting user among its participants, whether the
\* conversation was created by the request or found by the dedup lookup, and
\* whether or not the request listed the requester.
C38_RequesterIsParticipant ==
    \A h \in Handles :
        (call[h].route = "create_chat" /\ resp[h] = "OK") =>
            /\ ret[h].id \in ConvIds(db)
            /\ _getUserIdFromUsername(call[h].user) \in Members(db, ret[h].id)

\* C38, reached: user 1 got the same conversation from two requests, one
\* that listed user 2 alone and one that listed users 1 and 2; one of them
\* created it and the other found it by the dedup lookup.
C38_CreatedAndFoundSameChat ==
    /\ Len(db.convs) = 1
    /\ \E h, g \in Handles :
          /\ call[h].route = "create_chat" /\ call[g].route = "create_chat"
          /\ call[h].user = 1 /\ call[g].user = 1
          /\ call[h].names = <<2, 1>> /\ call[g].names = <<1, 2>>
          /\ resp[h] = "OK" /\ resp[g] = "OK"
          /\ ret[h].id = 1 /\ ret[g].id = 1

====
